---- MODULE Spec2Model ----
(***************************************************************************)
(* Model of the Open Power Box INDI driver (drivers/power/opbdriver.cpp):  *)
(* the serial protocol engine, its value/name/limit/polarity caches and    *)
(* the set/get command handlers.                                           *)
(*                                                                         *)
(* A C++ std::string is a sequence of one-character strings; positions in  *)
(* the helper operators are 0-based as in the source.  A std::exception    *)
(* that leaves a handler is not caught anywhere in the driver: it ends the *)
(* process (variable terminated).                                          *)
(***************************************************************************)
EXTENDS Integers, Sequences, FiniteSets

\* ------------------------------------------------------------------------
\* Bounds of the model and constants of the program
\* ------------------------------------------------------------------------

\* Number of caller-level operations issued in one behaviour.
MaxOps == 1

\* std::string state[100]; std::string name_switch[100];
ARRAY_SIZE == 100
\* bool Reverse[5];
REVERSE_SIZE == 5
\* float Limit[6];
LIMIT_SIZE == 6
\* (int)std::string::npos, the value find() yields in an int when nothing is found
NPOS == -1
\* INT_MAX, above which std::stoi throws std::out_of_range
INT_MAX == 2147483647

\* The character '\0' that operator[] yields at position size().
NUL == "NUL"

Digits == <<"0", "1", "2", "3", "4", "5", "6", "7", "8", "9">>

IsDigit(c) == \E d \in 1..10 : Digits[d] = c

DigitVal(c) == (CHOOSE d \in 1..10 : Digits[d] = c) - 1

Min(a, b) == IF a < b THEN a ELSE b

\* ------------------------------------------------------------------------
\* std::string operations, as the handlers use them
\* ------------------------------------------------------------------------

\* s[p]: the character at 0-based position p; '\0' at p = size().
CharAt(s, p) == IF p >= 0 /\ p < Len(s) THEN s[p + 1] ELSE NUL

\* int i = s.find(c): the first 0-based position of c, or -1.
Find(s, c) ==
    IF \E k \in 1..Len(s) : s[k] = c
    THEN (CHOOSE k \in 1..Len(s) : s[k] = c /\ \A m \in 1..(k - 1) : s[m] # c) - 1
    ELSE NPOS

\* find where find_last_of is meant, for comparison.
FindLast_First(s, c) == Find(s, c)

\* int k = s.find_last_of(c)
FindLast(s, c) ==
    IF \E k \in 1..Len(s) : s[k] = c
    THEN (CHOOSE k \in 1..Len(s) : s[k] = c /\ \A m \in (k + 1)..Len(s) : s[m] # c) - 1
    ELSE NPOS

\* A position handed to erase/substr is converted to size_t: a negative int is
\* a huge position, and any position beyond size() throws std::out_of_range.
PosThrows(s, pos) == pos < 0 \/ pos > Len(s)

\* s.erase(0, 1): never throws, also on the empty string.
EraseFirst(s) == IF Len(s) = 0 THEN s ELSE Tail(s)

\* s.erase(pos): drops everything from pos on (pos within 0..size()).
Erase(s, pos) == SubSeq(s, 1, pos)

\* s.substr(pos): everything from pos on (pos within 0..size()).
SubstrFrom(s, pos) == SubSeq(s, pos + 1, Len(s))

\* s.substr(pos, count): count is converted to size_t, so a negative count
\* means "to the end".
Substr(s, pos, count) ==
    IF count < 0 THEN SubSeq(s, pos + 1, Len(s))
    ELSE SubSeq(s, pos + 1, Min(pos + count, Len(s)))

\* std::to_string(int) for a non-negative int.
RECURSIVE ToString(_)
ToString(n) ==
    IF n < 10 THEN <<Digits[n + 1]>>
    ELSE ToString(n \div 10) \o <<Digits[(n % 10) + 1]>>

\* std::to_string(double) of an integer-valued double: "%f", six decimals.
ToStringDouble(n) == ToString(n) \o <<".", "0", "0", "0", "0", "0", "0">>

\* The run of decimal digits that starts at 1-based position k of s.
RECURSIVE DigitRun(_, _)
DigitRun(s, k) ==
    IF k <= Len(s) /\ IsDigit(s[k]) THEN <<s[k]>> \o DigitRun(s, k + 1) ELSE <<>>

RECURSIVE DigitsValue(_)
DigitsValue(ds) ==
    IF Len(ds) = 0 THEN 0
    ELSE 10 * DigitsValue(SubSeq(ds, 1, Len(ds) - 1)) + DigitVal(ds[Len(ds)])

\* 1-based position of the first character that is not white space.
RECURSIVE SkipSpace(_, _)
SkipSpace(s, k) == IF k <= Len(s) /\ s[k] = " " THEN SkipSpace(s, k + 1) ELSE k

\* Position of the first digit candidate: after white space and one sign.
NumStart(s) ==
    LET k == SkipSpace(s, 1)
    IN  IF k <= Len(s) /\ s[k] \in {"-", "+"} THEN k + 1 ELSE k

NumNegative(s) ==
    LET k == SkipSpace(s, 1) IN k <= Len(s) /\ s[k] = "-"

\* std::stoi(s) throws std::invalid_argument when no digit can be converted
\* and std::out_of_range when the value does not fit an int.
StoiThrows(s) ==
    \/ DigitRun(s, NumStart(s)) = <<>>
    \/ DigitsValue(DigitRun(s, NumStart(s))) > INT_MAX

\* std::stoi(s): leading white space, a sign, then digits; the rest is ignored.
Stoi(s) ==
    LET v == DigitsValue(DigitRun(s, NumStart(s)))
    IN  IF NumNegative(s) THEN 0 - v ELSE v

\* short(x): the int is cut to 16 bits.
Short(x) == ((x + 32768) % 65536) - 32768

\* std::stof(s) throws std::invalid_argument when no number starts s.
StofThrows(s) ==
    LET k  == NumStart(s)
        ip == DigitRun(s, k)
        fp == IF CharAt(s, k - 1 + Len(ip)) = "." THEN DigitRun(s, k + Len(ip) + 1) ELSE <<>>
    IN  ip = <<>> /\ fp = <<>>

\* std::stof(s): the float is kept in hundredths (two decimals of the
\* fraction), which is exact for the values the device reports.
Stof(s) ==
    LET k  == NumStart(s)
        ip == DigitRun(s, k)
        fp == IF CharAt(s, k - 1 + Len(ip)) = "." THEN DigitRun(s, k + Len(ip) + 1) ELSE <<>>
        f2 == SubSeq(fp \o <<"0", "0">>, 1, 2)
        v  == 100 * DigitsValue(ip) + DigitsValue(f2)
    IN  IF NumNegative(s) THEN 0 - v ELSE v

\* ------------------------------------------------------------------------
\* The wire
\* ------------------------------------------------------------------------

\* Request packets: "# <command> <index>\n" and "# <command> <index> <value>\n".
Packet(command, SwitchNum) ==
    <<"#", " ", command, " ">> \o ToString(SwitchNum) \o <<"\n">>

PacketValue(command, SwitchNum, value) ==
    <<"#", " ", command, " ">> \o ToString(SwitchNum) \o <<" ">> \o value \o <<"\n">>

\* std::to_string(float) of a value kept in hundredths: "%f", six decimals.
ToStringFloat(h) ==
    ToString(h \div 100) \o <<".", Digits[((h \div 10) % 10) + 1], Digits[(h % 10) + 1],
                                "0", "0", "0", "0">>

\* What the device sends: "#<tag><index>:<payload>;".
Frame(tag, index, payload) ==
    <<"#", tag>> \o ToString(index) \o <<":">> \o payload \o <<";">>

\* The read ended without a frame: tty_read_section did not return TTY_OK.
TIMEOUT == <<"timeout">>

\* Payloads the device reports for a switch, a duty cycle and a sensor.
SwitchPayloads == {<<"0">>, <<"1">>}
DutyPayloads == {<<"0">>, <<"3", "0">>, <<"5", "0">>}
SensorPayloads == {<<"1", "2", ".", "5", "0">>}
VoltagePayloads == {<<"1", "2", ".", "0", "0">>}
CurrentPayloads == {<<"2", ".", "5", "0">>}
\* Payloads the device may send back after a set: the ones above, a value of
\* two digits after a boolean set, a text without digits after a duty set.
SwitchAckPayloads == SwitchPayloads \cup {<<"1", "0">>}
DutyAckPayloads == DutyPayloads \cup {<<"o", "n">>}
NamePayloads == {<<"c", "a", "m">>}
LimitPayloads == {<<"2", ".", "5", "0">>}
ReversePayloads == {<<"0">>, <<"1">>}

\* A tag other than the expected one (and other than E).
OtherTag(tag) == IF tag = "G" THEN "n" ELSE "G"

\* The frames the driver may read after a request with expected tag `tag`
\* for index `id`: acknowledgments with each payload, a frame of another
\* index, a frame of another tag, error frames without and with an index,
\* frames the grammar does not allow, and no frame at all.
Responses(tag, id, payloads) ==
    {Frame(tag, id, p) : p \in payloads}
    \cup {Frame(tag, id + 4, p) : p \in payloads}
    \cup {Frame(OtherTag(tag), id, p) : p \in payloads}
    \cup {<<"#", "E", " ", "b", "a", "d", " ", "r", "e", "q", "u", "e", "s", "t", ";">>,
          <<"#", "E">> \o ToString(id) \o <<":", "b", "a", "d", ";">>,
          <<"#", tag>> \o ToString(id) \o <<";">>,
          <<"#", tag, "x", ":", "1", ";">>,
          <<tag>> \o ToString(id) \o <<":", "1", ";">>,
          <<"#", ";">>,
          TIMEOUT}

\* The counts a device reports: the fixed hardware, a box without relay, an
\* empty one, one with counts of two digits, and one with more outputs than
\* the caches have entries for.
DeviceTopologies ==
    {<<7, 3, 1, 1, 7>>, <<1, 1, 0, 1, 1>>, <<0, 0, 0, 0, 0>>, <<12, 0, 2, 3, 10>>,
     <<40, 0, 0, 0, 0>>}

\* "#Z:a,b,c,d,e;"
ZFrame(t) ==
    <<"#", "Z", ":">> \o ToString(t[1]) \o <<",">> \o ToString(t[2]) \o <<",">>
        \o ToString(t[3]) \o <<",">> \o ToString(t[4]) \o <<",">> \o ToString(t[5])
        \o <<";">>

\* The frames the driver may read after the Z request: the list of a device,
\* error frames, a list of two fields, a frame without list, a list that is
\* not numeric, a frame of another tag, a frame without '#', no frame.
TopologyFrames ==
    {ZFrame(t) : t \in DeviceTopologies}
    \cup {<<"#", "E", " ", "b", "a", "d", " ", "r", "e", "q", "u", "e", "s", "t", ";">>,
          <<"#", "E", "0", ":", "b", "a", "d", ";">>,
          <<"#", "Z", ":", "1", ",", "2", ";">>,
          <<"#", "Z", ";">>,
          <<"#", "Z", ":", "a", ",", "b", ",", "c", ",", "d", ",", "e", ";">>,
          <<"#", "G", "0", ":", "1", ";">>,
          <<"Z", ":", "1", ",", "1", ",", "1", ",", "1", ",", "1", ";">>,
          TIMEOUT}

\* The characters std::string(ans) reads behind the unterminated array ans:
\* nothing, or whatever the stack holds up to the next zero byte.
Garbage == {<<>>, <<"x">>, <<"7", ";", ":", "x">>}

\* ------------------------------------------------------------------------
\* State
\* ------------------------------------------------------------------------

VARIABLES
    connectedstate,  \* bool connectedstate
    numDC, numPWM, numRelay, numOn, numUSB,   \* the topology counts
    state,           \* std::string state[100]: the value cache
    name_switch,     \* std::string name_switch[100]: the name cache
    Reverse,         \* bool Reverse[5]
    Limit,           \* float Limit[6], in hundredths
    Alldc, Allpwm,   \* the all-DC and all-PWM master switches
    terminated,      \* an exception left a handler: the process has ended
    pc,              \* "idle": between operations; "wait": a request is out
    cur,             \* the operation in progress, or the last one
    pre,             \* the caches as they were when cur was called
    tx,              \* the packet last written to the port
    rx,              \* the bytes last read from the port (or TIMEOUT)
    matched,         \* the last response passed the tag-and-index test
    logged,          \* what the last handler logged about its response
    ret,             \* what the last caller-level operation returned ("true",
                     \* "false"), or the state a toggle set on its property
    confirmed,       \* per index: the value last acknowledged or last read
    nops,            \* operations called so far
    task,            \* the callback the event loop is running, and its loop index
    timer,           \* the number of poll timers armed with SetTimer
    sent,            \* the requests handed to Transmit in the current callback
    inflight,        \* the requests transmitted whose response has not been read
    first,           \* what the first GetNum of the Connect in progress read and left
    initialized,     \* bool initialized
    created,         \* the Connect calls that created the per-class properties
    IP, SSID,        \* std::string IP, SSID: the address and network last read
    PowerSensorsNP,  \* the published input voltage and total current (in
                     \* hundredths) and power (in ten-thousandths)
    TotalConsumptionNP,  \* the same three values of the consumption property
    noise,           \* the bytes the line delivers in front of every frame
    pending          \* the frame waiting in the input of the port, if any

vars == <<connectedstate, numDC, numPWM, numRelay, numOn, numUSB, state,
          name_switch, Reverse, Limit, Alldc, Allpwm, terminated, pc, cur,
          pre, tx, rx, matched, logged, ret, confirmed, nops, task, timer,
          sent, inflight, first,
          initialized, created, IP, SSID, PowerSensorsNP, TotalConsumptionNP, noise, pending>>

topology == <<numDC, numPWM, numRelay, numOn, numUSB>>

Cache == [state |-> state, name_switch |-> name_switch,
          Reverse |-> Reverse, Limit |-> Limit]

NoOp == [fn |-> "none", cmd |-> "-", tag |-> "-", id |-> 0, value |-> 0,
         prev |-> <<>>, txOk |-> TRUE, caller |-> "none"]

\* The sensor property before the first poll cycle has set it.
NotPublished == [voltage |-> 0, current |-> 0, power |-> 0]

\* No callback is running: the event loop waits for the next event.
NoTask == [name |-> "none", k |-> 0]

\* No Connect is between its first GetNum and its return.
NoFirst == [rx |-> <<>>, topology |-> <<>>]

\* TimerHit, lines 1410-1412
total == numDC + numPWM + numOn + numRelay + numUSB
numSwitch == (numDC + numPWM + numOn) * 2 + total + 4

\* The topology of the connected device, as GetNum stored it.
Topology == [numDC |-> 1, numPWM |-> 1, numRelay |-> 1, numOn |-> 1, numUSB |-> 1]

\* The value cache of a connection: before the first poll sweep every entry
\* is the empty string; after a sweep the entries hold what the device
\* reported (switches, duty cycles, sensors).
FreshState == [i \in 0..(ARRAY_SIZE - 1) |-> <<>>]

\* The cache after a sweep: switch holds what the device reported for every
\* switch (DC, relay, bank, USB), duty what it reported for every dew heater.
PolledState(switch, duty) ==
    [i \in 0..(ARRAY_SIZE - 1) |->
        IF i < Topology.numDC THEN switch
        ELSE IF i < Topology.numDC + Topology.numPWM THEN duty
        ELSE IF i < Topology.numDC + Topology.numPWM + Topology.numRelay
                     + Topology.numOn + Topology.numUSB THEN switch
        ELSE IF i < (Topology.numDC + Topology.numPWM + Topology.numOn) * 2
                     + Topology.numDC + Topology.numPWM + Topology.numRelay
                     + Topology.numOn + Topology.numUSB + 4 THEN <<"1", "2", ".", "5", "0">>
        ELSE <<>>]

InitialStates ==
    {FreshState, PolledState(<<"0">>, <<"3", "0">>), PolledState(<<"1">>, <<"5", "0">>)}

Init ==
    /\ connectedstate = TRUE
    /\ numDC = Topology.numDC
    /\ numPWM = Topology.numPWM
    /\ numRelay = Topology.numRelay
    /\ numOn = Topology.numOn
    /\ numUSB = Topology.numUSB
    /\ state \in InitialStates
    /\ name_switch = [i \in 0..(ARRAY_SIZE - 1) |->
                        IF i < Topology.numDC + Topology.numPWM THEN <<"o", "u", "t">> ELSE <<>>]
    /\ Reverse = [i \in 0..(REVERSE_SIZE - 1) |-> FALSE]
    /\ Limit = [i \in 0..(LIMIT_SIZE - 1) |-> 500]
    /\ Alldc = TRUE
    /\ Allpwm = TRUE
    /\ terminated = FALSE
    /\ pc = "idle"
    /\ cur = NoOp
    /\ pre = Cache
    /\ tx = <<>>
    /\ rx = <<>>
    /\ matched = FALSE
    /\ logged = "none"
    /\ ret = "none"
    /\ confirmed = state
    /\ nops = 0
    /\ task = NoTask
    /\ timer = 1
    /\ sent = <<>>
    /\ inflight = 0
    /\ first = NoFirst
    /\ initialized = TRUE
    /\ created = 1
    /\ IP = <<>>
    /\ SSID = <<>>
    /\ PowerSensorsNP = NotPublished
    /\ TotalConsumptionNP = NotPublished
    /\ noise = <<>>
    /\ pending = <<>>

\* ------------------------------------------------------------------------
\* Reception and the handlers' processing of what was received
\* ------------------------------------------------------------------------

Thrown == [thrown |-> TRUE, buf |-> <<>>]

\* std::string answer = ans (line 753): the characters of the array up to the
\* first zero byte.
CString(bytes) ==
    IF \E k \in 1..Len(bytes) : bytes[k] = NUL
    THEN SubSeq(bytes, 1, (CHOOSE k \in 1..Len(bytes) :
                              bytes[k] = NUL /\ \A m \in 1..(k - 1) : bytes[m] # NUL) - 1)
    ELSE bytes

\* ReceiveTerminated(';').  bytes is what tty_read_section stored (TIMEOUT when
\* it did not return TTY_OK), garbage what follows the unterminated copy.
\* A failed read yields ""; otherwise everything before the first '#' is cut,
\* and substr throws when there is no '#'.
ReceiveTerminated(bytes, garbage) ==
    IF bytes = TIMEOUT THEN [thrown |-> FALSE, buf |-> <<>>]
    ELSE LET answer == CString(bytes \o garbage)
             i == Find(answer, "#")
         IN  IF PosThrows(answer, i) THEN Thrown
             ELSE [thrown |-> FALSE, buf |-> SubstrFrom(answer, i)]

\* What a handler leaves: whether an exception left it, the text it left in
\* its cache entry, what it logged, whether the tag-and-index test passed.
Outcome(thrown, text, log, ok) ==
    [thrown |-> thrown, text |-> text, log |-> log, matched |-> ok]

\* A weaker TagAndIndexMatch, for comparison: the tag of the response is not compared.
TagAndIndexMatch_IndexOnly(buf, tag, switchN, id) == switchN = id

\* A weaker TagAndIndexMatch, for comparison: the index of the response is not compared.
TagAndIndexMatch_TagOnly(buf, tag, switchN, id) == CharAt(buf, 0) = tag

\* The test every handler applies to a response that is not an error:
\* (buf[0] == tag) && (switchN == id).
TagAndIndexMatch(buf, tag, switchN, id) == CharAt(buf, 0) = tag /\ switchN = id

\* A wrong Acknowledges, for comparison: the comparison is inverted.
Acknowledges_Inverted(spec, payload) == CharAt(spec, 0) # CharAt(payload, 0)

\* SetSwitchUSB, line 950: the acknowledgment test state[id][0] == buf[0].
Acknowledges(spec, payload) == CharAt(spec, 0) = CharAt(payload, 0)

\* A RolledBack without the restore, for comparison: the written value is kept.
RolledBack_Kept(spec, prev) == spec

\* SetSwitchUSB, line 953 (SetSwitchValueUSB, line 914): state[id] = prev.
RolledBack(spec, prev) == prev

\* SetSwitchUSB from the read on: spec is state[id] after the write of line
\* 934, prev the value saved in line 932.
SetSwitchUSB_Process(id, spec, prev, r) ==
    LET b1 == EraseFirst(r.buf)
        b2 == Erase(b1, Len(b1) - 1)
        i == Find(b2, ":")
        sub == Substr(b2, 1, i - 1)
        switchN == Short(Stoi(sub))
        payload == SubstrFrom(b2, i + 1)
    IN  IF r.thrown \/ PosThrows(b1, Len(b1) - 1) \/ PosThrows(b2, 1) \/ StoiThrows(sub)
        THEN Outcome(TRUE, spec, "none", FALSE)
        ELSE IF CharAt(b2, 0) = "E"
        THEN Outcome(FALSE, spec, "device_error", FALSE)
        ELSE IF TagAndIndexMatch(b2, "G", switchN, id)
        THEN IF Acknowledges(spec, payload)
             THEN Outcome(FALSE, spec, "none", TRUE)
             ELSE Outcome(FALSE, RolledBack(spec, prev), "not_acknowledged", TRUE)
        ELSE Outcome(FALSE, spec, "none", FALSE)

\* SetSwitchValueUSB from the read on: the two texts are compared as the
\* integers std::stoi reads from them.
SetSwitchValueUSB_Process(id, spec, prev, r) ==
    LET b1 == EraseFirst(r.buf)
        b2 == Erase(b1, Len(b1) - 1)
        i == Find(b2, ":")
        sub == Substr(b2, 1, i - 1)
        switchN == Short(Stoi(sub))
        payload == SubstrFrom(b2, i + 1)
    IN  IF r.thrown \/ PosThrows(b1, Len(b1) - 1) \/ PosThrows(b2, 1) \/ StoiThrows(sub)
        THEN Outcome(TRUE, spec, "none", FALSE)
        ELSE IF CharAt(b2, 0) = "E"
        THEN Outcome(FALSE, spec, "device_error", FALSE)
        ELSE IF TagAndIndexMatch(b2, "G", switchN, id)
        THEN IF StoiThrows(spec) \/ StoiThrows(payload)
             THEN Outcome(TRUE, spec, "none", TRUE)
             ELSE IF Stoi(spec) = Stoi(payload)
             THEN Outcome(FALSE, spec, "none", TRUE)
             ELSE Outcome(FALSE, RolledBack(spec, prev), "not_acknowledged", TRUE)
        ELSE Outcome(FALSE, spec, "none", FALSE)

\* GetSwitchUSB from the read on: old is state[id].  The last character is
\* erased in line 975, and the value is stored only when a ';' is still found.
GetSwitchUSB_Process(id, old, r) ==
    LET b1 == EraseFirst(r.buf)
        b2 == Erase(b1, Len(b1) - 1)
        i == Find(b2, ":")
        sub == Substr(b2, 1, i - 1)
        switchN == Short(Stoi(sub))
        j == Find(b2, ";")
        b3 == Erase(b2, j)
    IN  IF r.thrown \/ PosThrows(b1, Len(b1) - 1) \/ PosThrows(b2, 1) \/ StoiThrows(sub)
        THEN Outcome(TRUE, old, "none", FALSE)
        ELSE IF CharAt(b2, 0) = "E"
        THEN Outcome(FALSE, old, "device_error", FALSE)
        ELSE IF TagAndIndexMatch(b2, "G", switchN, id)
        THEN IF j # NPOS
             THEN IF PosThrows(b3, i + 1)
                  THEN Outcome(TRUE, old, "none", TRUE)
                  ELSE Outcome(FALSE, SubstrFrom(b3, i + 1), "none", TRUE)
             ELSE Outcome(FALSE, old, "none", TRUE)
        ELSE Outcome(FALSE, old, "none", FALSE)

\* GetNameUSB from the read on: old is name_switch[id].
GetNameUSB_Process(id, old, r) ==
    LET b1 == EraseFirst(r.buf)
        b2 == Erase(b1, Len(b1) - 1)
        i == Find(b2, ":")
        sub == Substr(b2, 1, i - 1)
        switchN == Short(Stoi(sub))
        j == Find(b2, ";")
        b3 == Erase(b2, j)
    IN  IF r.thrown \/ PosThrows(b1, Len(b1) - 1) \/ PosThrows(b2, 1) \/ StoiThrows(sub)
        THEN Outcome(TRUE, old, "none", FALSE)
        ELSE IF CharAt(b2, 0) = "E"
        THEN Outcome(FALSE, old, "device_error", FALSE)
        ELSE IF TagAndIndexMatch(b2, "n", switchN, id)
        THEN IF j # NPOS
             THEN IF PosThrows(b3, i + 1)
                  THEN Outcome(TRUE, old, "none", TRUE)
                  ELSE Outcome(FALSE, SubstrFrom(b3, i + 1), "none", TRUE)
             ELSE Outcome(FALSE, old, "none", TRUE)
        ELSE Outcome(FALSE, old, "none", FALSE)

\* GetLimitsUSB from the read on: old is Limit[id]; the text is converted
\* with std::stof, which may throw.
GetLimitsUSB_Process(id, old, r) ==
    LET b1 == EraseFirst(r.buf)
        b2 == Erase(b1, Len(b1) - 1)
        i == Find(b2, ":")
        sub == Substr(b2, 1, i - 1)
        switchN == Short(Stoi(sub))
        j == Find(b2, ";")
        b3 == Erase(b2, j)
    IN  IF r.thrown \/ PosThrows(b1, Len(b1) - 1) \/ PosThrows(b2, 1) \/ StoiThrows(sub)
        THEN Outcome(TRUE, old, "none", FALSE)
        ELSE IF CharAt(b2, 0) = "E"
        THEN Outcome(FALSE, old, "device_error", FALSE)
        ELSE IF TagAndIndexMatch(b2, "l", switchN, id)
        THEN IF j # NPOS
             THEN IF PosThrows(b3, i + 1) \/ StofThrows(SubstrFrom(b3, i + 1))
                  THEN Outcome(TRUE, old, "none", TRUE)
                  ELSE Outcome(FALSE, Stof(SubstrFrom(b3, i + 1)), "none", TRUE)
             ELSE Outcome(FALSE, old, "none", TRUE)
        ELSE Outcome(FALSE, old, "none", FALSE)

\* GetReverseUSB from the read on: old is Reverse[id]; here the last
\* character is not erased, and the text is converted with (bool)std::stoi.
GetReverseUSB_Process(id, old, r) ==
    LET b1 == EraseFirst(r.buf)
        i == Find(b1, ":")
        sub == Substr(b1, 1, i - 1)
        switchN == Short(Stoi(sub))
        j == Find(b1, ";")
        b3 == Erase(b1, j)
    IN  IF r.thrown \/ PosThrows(b1, 1) \/ StoiThrows(sub)
        THEN Outcome(TRUE, old, "none", FALSE)
        ELSE IF CharAt(b1, 0) = "E"
        THEN Outcome(FALSE, old, "device_error", FALSE)
        ELSE IF TagAndIndexMatch(b1, "r", switchN, id)
        THEN IF j # NPOS
             THEN IF PosThrows(b3, i + 1) \/ StoiThrows(SubstrFrom(b3, i + 1))
                  THEN Outcome(TRUE, old, "none", TRUE)
                  ELSE Outcome(FALSE, Stoi(SubstrFrom(b3, i + 1)) # 0, "none", TRUE)
             ELSE Outcome(FALSE, old, "none", TRUE)
        ELSE Outcome(FALSE, old, "none", FALSE)

\* A SetNameUSB that erased the last character as GetNameUSB does, for
\* comparison.
SetNameUSB_Process_EraseLast(id, old, r) == GetNameUSB_Process(id, old, r)

\* SetNameUSB from the read on (lines 1042-1067): old is name_switch[id].
\* The last character is not erased; the name is written only here, from
\* the response.
SetNameUSB_Process(id, old, r) ==
    LET b1 == EraseFirst(r.buf)
        i == Find(b1, ":")
        sub == Substr(b1, 1, i - 1)
        switchN == Short(Stoi(sub))
        j == Find(b1, ";")
        b3 == Erase(b1, j)
    IN  IF r.thrown \/ PosThrows(b1, 1) \/ StoiThrows(sub)
        THEN Outcome(TRUE, old, "none", FALSE)
        ELSE IF CharAt(b1, 0) = "E"
        THEN Outcome(FALSE, old, "device_error", FALSE)
        ELSE IF TagAndIndexMatch(b1, "n", switchN, id)
        THEN IF j # NPOS
             THEN IF PosThrows(b3, i + 1)
                  THEN Outcome(TRUE, old, "none", TRUE)
                  ELSE Outcome(FALSE, SubstrFrom(b3, i + 1), "none", TRUE)
             ELSE Outcome(FALSE, old, "none", TRUE)
        ELSE Outcome(FALSE, old, "none", FALSE)

\* SetReverseUSB from the read on (lines 1302-1324): line for line what
\* GetReverseUSB does from its read on.
SetReverseUSB_Process(id, old, r) == GetReverseUSB_Process(id, old, r)

\* SetLimitsUSB from the read on (lines 1372-1396): line for line what
\* GetLimitsUSB does from its read on.
SetLimitsUSB_Process(id, old, r) == GetLimitsUSB_Process(id, old, r)

\* GetIP, GetSSID and SetSSID from the read on (lines 1140-1166, 1179-1205,
\* 1218-1244): old is IP or SSID.  There is no index to parse; a response
\* whose first character is the tag is accepted, and the text behind the
\* first ':' up to the first ';' is stored.
WifiProcess(tag, old, r) ==
    LET b1 == EraseFirst(r.buf)
        i == Find(b1, ":")
        j == Find(b1, ";")
        b3 == Erase(b1, j)
    IN  IF r.thrown
        THEN Outcome(TRUE, old, "none", FALSE)
        ELSE IF CharAt(b1, 0) = "E"
        THEN Outcome(FALSE, old, "device_error", FALSE)
        ELSE IF CharAt(b1, 0) = tag
        THEN IF j # NPOS
             THEN IF PosThrows(b3, i + 1)
                  THEN Outcome(TRUE, old, "none", TRUE)
                  ELSE Outcome(FALSE, SubstrFrom(b3, i + 1), "none", TRUE)
             ELSE Outcome(FALSE, old, "none", TRUE)
        ELSE Outcome(FALSE, old, "none", FALSE)

GetIP_Process(old, r) == WifiProcess("i", old, r)

GetSSID_Process(old, r) == WifiProcess("f", old, r)

SetSSID_Process(old, r) == WifiProcess("f", old, r)

\* What GetNum leaves: whether an exception left it, the five counts, what
\* it logged.
Discovered(thrown, counts, log) == [thrown |-> thrown, counts |-> counts, log |-> log]

\* An assignment that adds to the member, for comparison.
Assigned_Added(old, value) == old + value

\* GetNum, lines 1098-1113: numUSB = std::stoi(...) and the four like it.
Assigned(old, value) == value

\* GetNum from the read on: old holds the five counts.  The list is read from
\* its last field backward; buf.erase(k) throws when no ',' is left
\* and std::stoi when a field holds no number, after the counts read so far
\* have been assigned.  The last character is not erased here, so the ';'
\* of the frame is found whatever follows it.
GetNum_Process(old, r) ==
    LET b1 == EraseFirst(r.buf)
        i  == Find(b1, ":")
        j  == Find(b1, ";")
        b2 == Erase(b1, j)
        b3 == SubstrFrom(b2, i + 1)
        k1 == FindLast(b3, ",")
        f1 == SubstrFrom(b3, k1 + 1)
        b4 == Erase(b3, k1)
        k2 == FindLast(b4, ",")
        f2 == SubstrFrom(b4, k2 + 1)
        b5 == Erase(b4, k2)
        k3 == FindLast(b5, ",")
        f3 == SubstrFrom(b5, k3 + 1)
        b6 == Erase(b5, k3)
        k4 == FindLast(b6, ",")
        f4 == SubstrFrom(b6, k4 + 1)
        b7 == Erase(b6, k4)
        t1 == [old EXCEPT !.numUSB = Assigned(@, Stoi(f1))]
        t2 == [t1 EXCEPT !.numOn = Assigned(@, Stoi(f2))]
        t3 == [t2 EXCEPT !.numRelay = Assigned(@, Stoi(f3))]
        t4 == [t3 EXCEPT !.numPWM = Assigned(@, Stoi(f4))]
        t5 == [t4 EXCEPT !.numDC = Assigned(@, Stoi(b7))]
    IN  IF r.thrown THEN Discovered(TRUE, old, "none")
        ELSE IF CharAt(b1, 0) = "E" THEN Discovered(FALSE, old, "device_error")
        ELSE IF CharAt(b1, 0) # "Z" \/ j = NPOS THEN Discovered(FALSE, old, "none")
        ELSE IF PosThrows(b2, i + 1) \/ StoiThrows(f1) THEN Discovered(TRUE, old, "none")
        ELSE IF PosThrows(b3, k1) \/ StoiThrows(f2) THEN Discovered(TRUE, t1, "none")
        ELSE IF PosThrows(b4, k2) \/ StoiThrows(f3) THEN Discovered(TRUE, t2, "none")
        ELSE IF PosThrows(b5, k3) \/ StoiThrows(f4) THEN Discovered(TRUE, t3, "none")
        ELSE IF PosThrows(b6, k4) \/ StoiThrows(b7) THEN Discovered(TRUE, t4, "none")
        ELSE Discovered(FALSE, t5, "none")

\* ------------------------------------------------------------------------
\* Operations.  Every handler blocks in ReceiveTerminated: it is modelled by
\* the step up to the read (pc = "wait") and the step from the read to its
\* return.  No other step is enabled in between.
\* ------------------------------------------------------------------------

\* Transmit(char, int, int), lines 763-791: the packet of a set command.
\* This overload writes without discarding pending input.
TransmitInt(command, SwitchNum, value) ==
    PacketValue(command, SwitchNum, ToString(value))

\* tcflush(PortFD, TCIOFLUSH) before the write: in Transmit(char, int) (line
\* 838), Transmit(char, int, float) (line 809) and Transmit(char, int,
\* std::string) (line 866), not in Transmit(char, int, int) (lines 763-791),
\* which SetSwitchValueUSB, SetSwitchUSB (command S) and SetReverseUSB
\* (command R) call.
Flushes(command) == command \notin {"S", "R"}

\* Transmit(char, int), lines 824-850: the packet of a get command.
Transmit(command, SwitchNum) == Packet(command, SwitchNum)

\* Transmit(char, int, float), lines 793-822, and Transmit(char, int,
\* std::string), lines 852-880.
TransmitFloat(command, SwitchNum, value) ==
    PacketValue(command, SwitchNum, ToStringFloat(value))

TransmitString(command, SwitchNum, value) == PacketValue(command, SwitchNum, value)

\* A frame "#<tag><id>:<payload>;" and its payload.
IsAck(bytes, tag, id) ==
    LET head == <<"#", tag>> \o ToString(id) \o <<":">>
    IN  /\ bytes # TIMEOUT
        /\ Len(bytes) > Len(head)
        /\ SubSeq(bytes, 1, Len(head)) = head
        /\ bytes[Len(bytes)] = ";"

PayloadOf(bytes, id) == SubSeq(bytes, Len(ToString(id)) + 4, Len(bytes) - 1)

\* ReceiveTerminated blocks the thread in tty_read_section (line 741) until
\* the terminator arrives or the read times out: while a handler waits for
\* its response nothing else of the driver runs.
Blocked_Never == FALSE

Blocked == pc = "wait"

\* The part of every handler before its read: the request is handed to
\* Transmit once (its result is ignored by every handler) and the handler
\* blocks in ReceiveTerminated.
Request(fn, cmd, tag, id, value, caller, packet) ==
    /\ ~Blocked
    /\ ~terminated
    /\ \E written \in BOOLEAN :
          /\ cur' = [fn |-> fn, cmd |-> cmd, tag |-> tag, id |-> id, value |-> value,
                     prev |-> state[id], txOk |-> written, caller |-> caller]
          /\ tx' = IF written THEN packet ELSE <<>>
    /\ pre' = Cache
    /\ pc' = "wait"
    /\ rx' = <<>>
    /\ matched' = FALSE
    /\ logged' = "none"
    /\ ret' = "none"
    /\ inflight' = inflight + 1
    /\ pending' = IF Flushes(cmd) THEN <<>> ELSE pending
    /\ UNCHANGED <<numDC, numPWM, numRelay, numOn, numUSB, name_switch, Reverse,
                   Limit, Alldc, Allpwm, terminated, confirmed, timer, first,
                   initialized, created, IP, SSID, PowerSensorsNP, TotalConsumptionNP, noise>>

\* The event loop runs one callback at a time: a client message or a timer
\* is dispatched only when no callback is running.
Dispatchable == task = NoTask /\ ~terminated

\* A callback of a connected device that calls one handler.
Call(fn, cmd, tag, id, value, caller, packet) ==
    /\ Dispatchable
    /\ connectedstate
    /\ nops < MaxOps
    /\ Request(fn, cmd, tag, id, value, caller, packet)
    /\ nops' = nops + 1
    /\ task' = [name |-> "handler", k |-> 0]
    /\ sent' = <<<<cmd, id>>>>
    /\ UNCHANGED connectedstate

\* A SetSwitchUSB that writes nothing before its read, for comparison.
SetSwitchUSB_Call_NoWrite(id, value, caller) ==
    /\ Call("SetSwitchUSB", "S", "G", id, value, caller, TransmitInt("S", id, value))
    /\ UNCHANGED state

\* SetSwitchUSB, lines 932-934: prev = state[id]; Transmit; state[id] = to_string(value).
SetSwitchUSB_Call(id, value, caller) ==
    /\ Call("SetSwitchUSB", "S", "G", id, value, caller, TransmitInt("S", id, value))
    /\ state' = [state EXCEPT ![id] = ToString(value)]

\* SetSwitchValueUSB, lines 893-895: the value is sent as an int and cached
\* as the text of the double.
SetSwitchValueUSB_Call(id, value, caller) ==
    /\ Call("SetSwitchValueUSB", "S", "G", id, value, caller, TransmitInt("S", id, value))
    /\ state' = [state EXCEPT ![id] = ToStringDouble(value)]

\* A caller-level operation that returns without any request.
ReturnAtOnce(caller) ==
    /\ Dispatchable
    /\ connectedstate
    /\ nops < MaxOps
    /\ cur' = [NoOp EXCEPT !.caller = caller]
    /\ pre' = Cache
    /\ rx' = <<>>
    /\ matched' = FALSE
    /\ logged' = "none"
    /\ ret' = "true"
    /\ nops' = nops + 1
    /\ sent' = <<>>
    /\ UNCHANGED <<connectedstate, numDC, numPWM, numRelay, numOn, numUSB, state,
                   name_switch, Reverse, Limit, Alldc, Allpwm, terminated, pc, tx,
                   confirmed, task, timer, inflight, first,
                   initialized, created, IP, SSID, PowerSensorsNP, TotalConsumptionNP, noise, pending>>

\* SetPowerPort(port, enabled), lines 413-429.
SetPowerPort(port, enabled) ==
    IF Alldc
    THEN SetSwitchUSB_Call(port, IF enabled THEN 1 ELSE 0, "SetPowerPort")
    ELSE ReturnAtOnce("SetPowerPort")

\* SetDewPort(port, enabled, dutyCycle), lines 431-447.
SetDewPort(port, enabled, dutyCycle) ==
    IF Allpwm
    THEN SetSwitchValueUSB_Call(numDC + port, IF enabled THEN dutyCycle ELSE 0, "SetDewPort")
    ELSE ReturnAtOnce("SetDewPort")

\* SetUSBPort(port, enabled), lines 449-455.
SetUSBPort(port, enabled) ==
    SetSwitchUSB_Call(numDC + numPWM + numRelay + numOn + port,
                      IF enabled THEN 1 ELSE 0, "SetUSBPort")

\* GetSwitchUSB(id), line 972, as TimerHit calls it for every k < numSwitch.
GetSwitchUSB_Call(id) ==
    /\ Call("GetSwitchUSB", "G", "G", id, 0, "TimerHit", Transmit("G", id))
    /\ UNCHANGED state

\* GetNameUSB(id), line 1006, as Connect calls it for every i < numDC+numPWM.
GetNameUSB_Call(id) ==
    /\ Call("GetNameUSB", "n", "n", id, 0, "Connect", Transmit("n", id))
    /\ UNCHANGED state

\* GetLimitsUSB(id), line 1335, as Connect calls it for each of the 6 limits.
GetLimitsUSB_Call(id) ==
    /\ Call("GetLimitsUSB", "l", "l", id, 0, "Connect", Transmit("l", id))
    /\ UNCHANGED state

\* GetReverseUSB(id), line 1268, as Connect calls it for each of the 5 classes.
GetReverseUSB_Call(id) ==
    /\ Call("GetReverseUSB", "r", "r", id, 0, "Connect", Transmit("r", id))
    /\ UNCHANGED state

\* ISNewSwitch, lines 230-245: the toggle of the DC bank, defined when the
\* device has one bank (line 559).
ISNewSwitch_OnSP(enabled) ==
    /\ numOn = 1
    /\ SetSwitchUSB_Call(numDC + numPWM, IF enabled THEN 1 ELSE 0, "OnSP")

\* ISNewSwitch, lines 247-262: the toggle of the relay, defined when the
\* device has one relay (line 553).
ISNewSwitch_RelaySP(enabled) ==
    /\ numRelay = 1
    /\ SetSwitchUSB_Call(numDC + numPWM + numOn, IF enabled THEN 1 ELSE 0, "RelaySP")

\* Connect, lines 566-610: the polarity toggle of class c of
\* {DC, PWM, On, Relay, USB} is defined when the device has outputs of it.
ReverseDefined(c) ==
    <<numDC, numPWM, numOn, numRelay, numUSB>>[c + 1] > 0

\* ISNewSwitch, lines 264-313: SetReverseUSB(c, enabled), whose request goes
\* through Transmit(char, int, int).
ISNewSwitch_Reverse(c, enabled) ==
    /\ ReverseDefined(c)
    /\ Call("SetReverseUSB", "R", "r", c, IF enabled THEN 1 ELSE 0, "ReverseSP",
            TransmitInt("R", c, IF enabled THEN 1 ELSE 0))
    /\ UNCHANGED state

\* ISNewText, lines 343-373: a label that differs from the one shown is sent
\* with SetNameUSB(i, text) (here a message that changes one label).
ISNewText_Labels(i, name) ==
    /\ name # name_switch[i]
    /\ Call("SetNameUSB", "N", "n", i, name, "LabelsTP", TransmitString("N", i, name))
    /\ UNCHANGED state

\* ISNewText, lines 375-389: a limit that differs from the one shown is sent
\* with SetLimitsUSB(i, value) (here a message that changes one limit).
ISNewText_Limits(i, value) ==
    /\ value # Limit[i]
    /\ Call("SetLimitsUSB", "L", "l", i, value, "LimitsTP", TransmitFloat("L", i, value))
    /\ UNCHANGED state

\* What the caller-level operation returns once its handler has returned.
ReturnValue(caller) ==
    IF caller \in {"SetPowerPort", "SetDewPort", "SetUSBPort", "LabelsTP", "LimitsTP"}
    THEN "true" ELSE "none"

\* ISNewSwitch, lines 204, 220, 235 and 252: after the set the two master
\* switches, the bank and the relay toggle convert state[id] with std::stoi,
\* which throws when the text holds no number.
AfterToggle(caller, o) ==
    IF caller \in {"OnSP", "RelaySP", "AllDCSP", "AllPWMSP"}
       /\ ~o.thrown /\ StoiThrows(o.text)
    THEN [o EXCEPT !.thrown = TRUE]
    ELSE o

\* The state the toggles set on their property (lines 235-242, 269-270):
\* IPS_OK when the cached value is the requested one, IPS_ALERT otherwise.
PropertyState(caller, o) ==
    IF caller \in {"OnSP", "RelaySP"}
    THEN IF (Stoi(o.text) # 0) = (cur.value = 1) THEN "IPS_OK" ELSE "IPS_ALERT"
    ELSE IF o.text = (cur.value = 1) THEN "IPS_OK" ELSE "IPS_ALERT"

\* What can be read after the request of cur: a frame that was waiting in
\* the input is read first; when the write failed the device got no request
\* and the read ends without a frame.
Readable(payloads) ==
    IF pending # <<>> THEN {pending}
    ELSE IF cur.txOk
    THEN {IF f = TIMEOUT THEN f ELSE noise \o f :
             f \in Responses(cur.tag, cur.id, payloads)
                   \cup {Frame(cur.cmd, cur.id, p) : p \in payloads}}
    ELSE {TIMEOUT}

\* A handler that transmitted again when its read timed out, for comparison.
Retransmitted_OnTimeout(bytes, o) ==
    IF bytes = TIMEOUT THEN <<<<cur.cmd, cur.id>>>> ELSE <<>>

\* What a handler hands to Transmit after its read, whatever it read: no
\* handler calls Transmit a second time.
Retransmitted(bytes, o) == <<>>

\* The end of every handler: o is its outcome on the bytes read.
Finish(bytes, o) ==
    /\ rx' = bytes
    /\ terminated' = o.thrown
    /\ matched' = o.matched
    /\ logged' = IF bytes = TIMEOUT THEN "read_error" ELSE o.log
    /\ ret' = IF o.thrown THEN "none"
              ELSE IF cur.caller \in {"OnSP", "RelaySP", "ReverseSP"}
              THEN PropertyState(cur.caller, o)
              ELSE ReturnValue(cur.caller)
    /\ pc' = "idle"
    /\ inflight' = inflight - 1
    /\ sent' = sent \o Retransmitted(bytes, o)
    /\ task' = IF o.thrown THEN task
               ELSE IF task.name = "handler" THEN NoTask
               ELSE [task EXCEPT !.k = @ + 1]
    /\ pending' = IF pending = <<>> \/ ~cur.txOk THEN <<>>
                  ELSE Frame(cur.tag, cur.id, <<"0">>)
    /\ UNCHANGED <<connectedstate, Alldc, Allpwm, cur, pre, tx, nops, timer,
                   initialized, created, IP, SSID, PowerSensorsNP, TotalConsumptionNP, noise>>

\* A handler that stored the length of an accepted value in numDC, for
\* comparison.
Return_Recounted(bytes, o) ==
    /\ Finish(bytes, o)
    /\ numDC' = IF o.matched THEN Len(o.text) ELSE numDC
    /\ UNCHANGED <<numPWM, numRelay, numOn, numUSB, first>>

\* The end of every handler but GetNum: the topology counts are not assigned.
Return(bytes, o) ==
    /\ Finish(bytes, o)
    /\ UNCHANGED <<numDC, numPWM, numRelay, numOn, numUSB, first>>

\* SetSwitchUSB, lines 935-958.
SetSwitchUSB_Return ==
    /\ pc = "wait"
    /\ cur.fn = "SetSwitchUSB"
    /\ \E bytes \in Readable(SwitchAckPayloads), garbage \in Garbage :
          LET o == AfterToggle(cur.caller,
                               SetSwitchUSB_Process(cur.id, state[cur.id], cur.prev,
                                                    ReceiveTerminated(bytes, garbage)))
          IN  /\ state' = [state EXCEPT ![cur.id] = o.text]
              /\ confirmed' = IF IsAck(bytes, "G", cur.id)
                                 /\ PayloadOf(bytes, cur.id) = ToString(cur.value)
                              THEN [confirmed EXCEPT ![cur.id] = ToString(cur.value)]
                              ELSE confirmed
              /\ Return(bytes, o)
    /\ UNCHANGED <<name_switch, Reverse, Limit>>

\* SetSwitchValueUSB, lines 896-919.
SetSwitchValueUSB_Return ==
    /\ pc = "wait"
    /\ cur.fn = "SetSwitchValueUSB"
    /\ \E bytes \in Readable(DutyAckPayloads), garbage \in Garbage :
          LET o == AfterToggle(cur.caller,
                               SetSwitchValueUSB_Process(cur.id, state[cur.id], cur.prev,
                                                         ReceiveTerminated(bytes, garbage)))
          IN  /\ state' = [state EXCEPT ![cur.id] = o.text]
              /\ confirmed' = IF IsAck(bytes, "G", cur.id)
                                 /\ PayloadOf(bytes, cur.id) = ToString(cur.value)
                              THEN [confirmed EXCEPT ![cur.id] = ToStringDouble(cur.value)]
                              ELSE confirmed
              /\ Return(bytes, o)
    /\ UNCHANGED <<name_switch, Reverse, Limit>>

\* The payloads the device reports for index id of the value cache.
PayloadsOf(id) ==
    IF id < numDC THEN SwitchPayloads
    ELSE IF id < numDC + numPWM THEN DutyPayloads
    ELSE IF id < total THEN SwitchPayloads
    ELSE IF id = total THEN VoltagePayloads
    ELSE IF id = total + 1 THEN CurrentPayloads
    ELSE SensorPayloads

\* GetSwitchUSB, lines 973-995.
GetSwitchUSB_Return ==
    /\ pc = "wait"
    /\ cur.fn = "GetSwitchUSB"
    /\ \E bytes \in Readable(PayloadsOf(cur.id)), garbage \in Garbage :
          LET o == GetSwitchUSB_Process(cur.id, state[cur.id],
                                        ReceiveTerminated(bytes, garbage))
          IN  /\ state' = [state EXCEPT ![cur.id] = o.text]
              /\ confirmed' = IF IsAck(bytes, "G", cur.id)
                              THEN [confirmed EXCEPT ![cur.id] = PayloadOf(bytes, cur.id)]
                              ELSE confirmed
              /\ Return(bytes, o)
    /\ UNCHANGED <<name_switch, Reverse, Limit>>

\* GetNameUSB, lines 1007-1029.
GetNameUSB_Return ==
    /\ pc = "wait"
    /\ cur.fn = "GetNameUSB"
    /\ \E bytes \in Readable(NamePayloads), garbage \in Garbage :
          LET o == GetNameUSB_Process(cur.id, name_switch[cur.id],
                                      ReceiveTerminated(bytes, garbage))
          IN  /\ name_switch' = [name_switch EXCEPT ![cur.id] = o.text]
              /\ Return(bytes, o)
    /\ UNCHANGED <<state, Reverse, Limit, confirmed>>

\* GetLimitsUSB, lines 1336-1360.
GetLimitsUSB_Return ==
    /\ pc = "wait"
    /\ cur.fn = "GetLimitsUSB"
    /\ \E bytes \in Readable(LimitPayloads), garbage \in Garbage :
          LET o == GetLimitsUSB_Process(cur.id, Limit[cur.id],
                                        ReceiveTerminated(bytes, garbage))
          IN  /\ Limit' = [Limit EXCEPT ![cur.id] = o.text]
              /\ Return(bytes, o)
    /\ UNCHANGED <<state, name_switch, Reverse, confirmed>>

\* GetReverseUSB, lines 1269-1290.
GetReverseUSB_Return ==
    /\ pc = "wait"
    /\ cur.fn = "GetReverseUSB"
    /\ \E bytes \in Readable(ReversePayloads), garbage \in Garbage :
          LET o == GetReverseUSB_Process(cur.id, Reverse[cur.id],
                                         ReceiveTerminated(bytes, garbage))
          IN  /\ Reverse' = [Reverse EXCEPT ![cur.id] = o.text]
              /\ Return(bytes, o)
    /\ UNCHANGED <<state, name_switch, Limit, confirmed>>

\* SetNameUSB, lines 1042-1067.
SetNameUSB_Return ==
    /\ pc = "wait"
    /\ cur.fn = "SetNameUSB"
    /\ \E bytes \in Readable(NamePayloads), garbage \in Garbage :
          LET o == SetNameUSB_Process(cur.id, name_switch[cur.id],
                                      ReceiveTerminated(bytes, garbage))
          IN  /\ name_switch' = [name_switch EXCEPT ![cur.id] = o.text]
              /\ Return(bytes, o)
    /\ UNCHANGED <<state, Reverse, Limit, confirmed>>

\* SetReverseUSB, lines 1302-1324.
SetReverseUSB_Return ==
    /\ pc = "wait"
    /\ cur.fn = "SetReverseUSB"
    /\ \E bytes \in Readable(ReversePayloads), garbage \in Garbage :
          LET o == SetReverseUSB_Process(cur.id, Reverse[cur.id],
                                         ReceiveTerminated(bytes, garbage))
          IN  /\ Reverse' = [Reverse EXCEPT ![cur.id] = o.text]
              /\ Return(bytes, o)
    /\ UNCHANGED <<state, name_switch, Limit, confirmed>>

\* SetLimitsUSB, lines 1372-1396.
SetLimitsUSB_Return ==
    /\ pc = "wait"
    /\ cur.fn = "SetLimitsUSB"
    /\ \E bytes \in Readable(LimitPayloads), garbage \in Garbage :
          LET o == SetLimitsUSB_Process(cur.id, Limit[cur.id],
                                        ReceiveTerminated(bytes, garbage))
          IN  /\ Limit' = [Limit EXCEPT ![cur.id] = o.text]
              /\ Return(bytes, o)
    /\ UNCHANGED <<state, name_switch, Reverse, confirmed>>

\* ------------------------------------------------------------------------
\* Connect and Disconnect
\* ------------------------------------------------------------------------

\* Connect calls of one process: one more than the user operations, so that
\* a reconnect happens.
MaxConnects == MaxOps + 1

\* The five counts as a record.
Counts == [numDC |-> numDC, numPWM |-> numPWM, numRelay |-> numRelay,
           numOn |-> numOn, numUSB |-> numUSB]

\* The constructor (lines 63-67) does not initialise the counts: until GetNum
\* assigns them they hold whatever the allocation held.
UninitialisedCounts ==
    {[numDC |-> 0, numPWM |-> 0, numRelay |-> 0, numOn |-> 0, numUSB |-> 0],
     [numDC |-> 3, numPWM |-> 0, numRelay |-> 2, numOn |-> 1, numUSB |-> 5]}

\* Connect, lines 464-469, with openSerialPort, lines 657-716: when the port
\* cannot be opened Connect returns false; otherwise openSerialPort calls
\* GetNum.  The framework calls Connect for a device that is not connected.
Connect_Begin(opened) ==
    /\ Dispatchable
    /\ ~connectedstate
    /\ nops < MaxConnects
    /\ nops' = nops + 1
    /\ IF opened
       THEN /\ Request("GetNum", "Z", "Z", 0, 0, "openSerialPort", Transmit("Z", 0))
            /\ task' = [name |-> "Connect", k |-> 0]
            /\ sent' = <<<<"Z", 0>>>>
            /\ UNCHANGED <<connectedstate, state>>
       ELSE /\ connectedstate' = FALSE
            /\ cur' = [NoOp EXCEPT !.caller = "Connect"]
            /\ pre' = Cache
            /\ rx' = <<>>
            /\ matched' = FALSE
            /\ logged' = "none"
            /\ ret' = "false"
            /\ sent' = <<>>
            /\ UNCHANGED <<numDC, numPWM, numRelay, numOn, numUSB, state, name_switch,
                           Reverse, Limit, Alldc, Allpwm, terminated, pc, tx,
                           confirmed, task, timer, inflight, first,
                           initialized, created, IP, SSID, PowerSensorsNP, TotalConsumptionNP, noise, pending>>

\* Connect, lines 470-473: connectedstate = true, then GetNum once more.
Connect_GetNum ==
    /\ task = [name |-> "Connect", k |-> 1]
    /\ Request("GetNum", "Z", "Z", 0, 0, "Connect", Transmit("Z", 0))
    /\ connectedstate' = TRUE
    /\ sent' = Append(sent, <<"Z", 0>>)
    /\ UNCHANGED <<state, nops, task>>

\* GetNum, lines 1079-1118.
GetNum_Return ==
    /\ pc = "wait"
    /\ cur.fn = "GetNum"
    /\ \E bytes \in (IF cur.txOk THEN TopologyFrames ELSE {TIMEOUT}), garbage \in Garbage :
          LET o == GetNum_Process(Counts, ReceiveTerminated(bytes, garbage))
          IN  /\ numDC' = o.counts.numDC
              /\ numPWM' = o.counts.numPWM
              /\ numRelay' = o.counts.numRelay
              /\ numOn' = o.counts.numOn
              /\ numUSB' = o.counts.numUSB
              /\ first' = IF task.k = 0 THEN [rx |-> bytes, topology |-> o.counts]
                          ELSE first
              /\ Finish(bytes, Outcome(o.thrown, <<>>, o.log, FALSE))
    /\ UNCHANGED <<state, name_switch, Reverse, Limit, confirmed>>

\* What the device and the link do during the fetches of one Connect: the
\* polarity the device reports for every class, the bytes behind the copied
\* responses, and the command (of index 0) whose response is lost.  Either
\* every response arrives, or one is lost on a link without stray bytes.
AddressPayloads == {<<"1", "0", ".", "0", ".", "0", ".", "7">>}
NetworkPayloads == {<<"o", "b", "s">>}
ConnectLinks ==
    [reverse : ReversePayloads, garbage : {<<>>, <<"7", ";", ":", "x">>}, fault : {"-"}]
    \cup [reverse : {<<"0">>}, garbage : {<<>>}, fault : {"I", "n", "l", "r"}]

\* The bytes read after the request cmd for index id, answered with payload
\* when the link does not fail on it.
ConnectResponse(link, cmd, tag, id, payload) ==
    IF link.fault = cmd /\ id = 0 THEN TIMEOUT ELSE Frame(tag, id, payload)

\* A handler called by Connect: its request, the bytes it read, its outcome.
Fetched(cmd, id, bytes, o) == [cmd |-> cmd, id |-> id, bytes |-> bytes, o |-> o]

\* Connect, lines 486-489 and 541-551: the handlers Connect calls after the
\* second GetNum, in order, each with its outcome on what the link returned:
\* GetIP, GetSSID, GetNameUSB(i) for i < numDC+numPWM, and, only when
\* initialized is false, GetLimitsUSB(k) for the six limits and
\* GetReverseUSB(c) for the five classes.
Connect_Fetches(link) ==
    LET bytes(cmd, tag, id, payload) == ConnectResponse(link, cmd, tag, id, payload)
        read(cmd, tag, id, payload) ==
            ReceiveTerminated(bytes(cmd, tag, id, payload), link.garbage)
        addr == CHOOSE a \in AddressPayloads : TRUE
        net  == CHOOSE n \in NetworkPayloads : TRUE
        name == CHOOSE n \in NamePayloads : TRUE
        lim  == CHOOSE l \in LimitPayloads : TRUE
    IN  <<Fetched("I", 0, bytes("I", "i", 0, addr),
                  GetIP_Process(IP, read("I", "i", 0, addr))),
          Fetched("f", 0, bytes("f", "f", 0, net),
                  GetSSID_Process(SSID, read("f", "f", 0, net)))>>
        \o [n \in 1..(numDC + numPWM) |->
               Fetched("n", n - 1, bytes("n", "n", n - 1, name),
                       GetNameUSB_Process(n - 1, name_switch[n - 1],
                                          read("n", "n", n - 1, name)))]
        \o (IF initialized THEN <<>>
            ELSE [n \in 1..LIMIT_SIZE |->
                     Fetched("l", n - 1, bytes("l", "l", n - 1, lim),
                             GetLimitsUSB_Process(n - 1, Limit[n - 1],
                                                  read("l", "l", n - 1, lim)))]
                 \o [n \in 1..REVERSE_SIZE |->
                        Fetched("r", n - 1, bytes("r", "r", n - 1, link.reverse),
                                GetReverseUSB_Process(n - 1, Reverse[n - 1],
                                                      read("r", "r", n - 1, link.reverse)))])

\* The p-th fetch was called and returned: no exception left it or an earlier one.
FetchReturned(fs, p) == p <= Len(fs) /\ \A q \in 1..p : ~fs[q].o.thrown

\* The p-th fetch was called: no exception left an earlier one.
FetchCalled(fs, p) == p <= Len(fs) /\ \A q \in 1..(p - 1) : ~fs[q].o.thrown

\* A Connect that skipped the test of initialized, for comparison.
PropertiesCreated_Always(fs) == FetchReturned(fs, 2 + numDC + numPWM)

\* Connect, line 491: the block that creates the per-class properties is
\* entered when the name fetches have returned and initialized is false.
PropertiesCreated(fs) == FetchReturned(fs, 2 + numDC + numPWM) /\ ~initialized

\* Connect, lines 474-622, after the second GetNum: the log line, the
\* fetches, the creation of the properties on the first pass (line 491),
\* initialized = true (line 611).  The handlers block one after the other
\* inside this one callback.  When Connect has returned true the framework
\* calls updateProperties, which arms the poll timer (line 152).
Connect_Fetch(link) ==
    /\ task = [name |-> "Connect", k |-> 2]
    /\ ~Blocked
    /\ ~terminated
    /\ \E fs \in {Connect_Fetches(link)} :
       LET nn == numDC + numPWM
           thrown == ~FetchReturned(fs, Len(fs))
       IN  /\ terminated' = thrown
           /\ task' = IF thrown THEN task ELSE NoTask
           /\ timer' = IF thrown THEN timer ELSE timer + 1
           /\ ret' = IF thrown THEN "none" ELSE "true"
           /\ IP' = IF FetchReturned(fs, 1) THEN fs[1].o.text ELSE IP
           /\ SSID' = IF FetchReturned(fs, 2) THEN fs[2].o.text ELSE SSID
           /\ name_switch' = [i \in 0..(ARRAY_SIZE - 1) |->
                                 IF i < nn /\ FetchReturned(fs, 3 + i)
                                 THEN fs[3 + i].o.text ELSE name_switch[i]]
           /\ Limit' = [k \in 0..(LIMIT_SIZE - 1) |->
                           IF ~initialized /\ FetchReturned(fs, 3 + nn + k)
                           THEN fs[3 + nn + k].o.text ELSE Limit[k]]
           /\ Reverse' = [c \in 0..(REVERSE_SIZE - 1) |->
                             IF ~initialized /\ FetchReturned(fs, 3 + nn + LIMIT_SIZE + c)
                             THEN fs[3 + nn + LIMIT_SIZE + c].o.text ELSE Reverse[c]]
           /\ \E last \in {Cardinality({q \in 1..Len(fs) : FetchCalled(fs, q)})} :
                 /\ sent' = sent \o [p \in 1..last |-> <<fs[p].cmd, fs[p].id>>]
                 /\ tx' = Transmit(fs[last].cmd, fs[last].id)
                 /\ rx' = fs[last].bytes
                 /\ logged' = IF fs[last].bytes = TIMEOUT THEN "read_error"
                              ELSE fs[last].o.log
                 /\ matched' = fs[last].o.matched
           /\ created' = IF PropertiesCreated(fs) THEN created + 1 ELSE created
           /\ initialized' = (initialized \/ ~thrown)
    /\ cur' = [NoOp EXCEPT !.caller = "Connect"]
    /\ pre' = Cache
    /\ first' = NoFirst
    /\ UNCHANGED <<connectedstate, numDC, numPWM, numRelay, numOn, numUSB, state,
                   Alldc, Allpwm, pc, confirmed, nops, inflight, PowerSensorsNP,
                   TotalConsumptionNP, noise, pending>>

\* Disconnect, lines 629-651: the port is closed and connectedstate cleared;
\* the counts, the caches and the armed timer are left as they are.
Disconnect ==
    /\ Dispatchable
    /\ connectedstate
    /\ connectedstate' = FALSE
    /\ ret' = "true"
    /\ cur' = [NoOp EXCEPT !.caller = "Disconnect"]
    /\ sent' = <<>>
    /\ UNCHANGED <<numDC, numPWM, numRelay, numOn, numUSB, state, name_switch,
                   Reverse, Limit, Alldc, Allpwm, terminated, pc, pre, tx, rx,
                   matched, logged, confirmed, nops, task, timer, inflight, first,
                   initialized, created, IP, SSID, PowerSensorsNP, TotalConsumptionNP, noise, pending>>

\* The process after construction and initProperties: not connected, the
\* caches empty, no timer armed.
InitConnect ==
    /\ connectedstate = FALSE
    /\ \E c \in UninitialisedCounts :
          /\ numDC = c.numDC
          /\ numPWM = c.numPWM
          /\ numRelay = c.numRelay
          /\ numOn = c.numOn
          /\ numUSB = c.numUSB
    /\ state = FreshState
    /\ name_switch = [i \in 0..(ARRAY_SIZE - 1) |-> <<>>]
    /\ Reverse = [i \in 0..(REVERSE_SIZE - 1) |-> FALSE]
    /\ Limit = [i \in 0..(LIMIT_SIZE - 1) |-> 0]
    /\ Alldc = TRUE
    /\ Allpwm = TRUE
    /\ terminated = FALSE
    /\ pc = "idle"
    /\ cur = NoOp
    /\ pre = Cache
    /\ tx = <<>>
    /\ rx = <<>>
    /\ matched = FALSE
    /\ logged = "none"
    /\ ret = "none"
    /\ confirmed = state
    /\ nops = 0
    /\ task = NoTask
    /\ timer = 0
    /\ sent = <<>>
    /\ inflight = 0
    /\ first = NoFirst
    /\ initialized = FALSE
    /\ created = 0
    /\ IP = <<>>
    /\ SSID = <<>>
    /\ PowerSensorsNP = NotPublished
    /\ TotalConsumptionNP = NotPublished
    /\ noise = <<>>
    /\ pending = <<>>

\* Duty cycles, labels and limits (in hundredths) a client asks for.
DutyCycles == {30, 50}
Labels == {<<"c", "a", "m">>, <<"f", "a", "n">>}
Limits == {250}

Next ==
    \/ \E port \in 0..(numDC - 1), enabled \in BOOLEAN : SetPowerPort(port, enabled)
    \/ \E port \in 0..(numPWM - 1), enabled \in BOOLEAN, dutyCycle \in DutyCycles :
          SetDewPort(port, enabled, dutyCycle)
    \/ \E port \in 0..(numUSB - 1), enabled \in BOOLEAN : SetUSBPort(port, enabled)
    \/ \E k \in 0..(numSwitch - 1) : GetSwitchUSB_Call(k)
    \/ \E i \in 0..(numDC + numPWM - 1) : GetNameUSB_Call(i)
    \/ \E i \in 0..(LIMIT_SIZE - 1) : GetLimitsUSB_Call(i)
    \/ \E i \in 0..(REVERSE_SIZE - 1) : GetReverseUSB_Call(i)
    \/ \E enabled \in BOOLEAN : ISNewSwitch_OnSP(enabled)
    \/ \E enabled \in BOOLEAN : ISNewSwitch_RelaySP(enabled)
    \/ \E c \in 0..(REVERSE_SIZE - 1), enabled \in BOOLEAN : ISNewSwitch_Reverse(c, enabled)
    \/ \E i \in 0..(numDC + numPWM - 1), name \in Labels : ISNewText_Labels(i, name)
    \/ \E i \in 0..(LIMIT_SIZE - 1), value \in Limits : ISNewText_Limits(i, value)
    \/ SetNameUSB_Return
    \/ SetReverseUSB_Return
    \/ SetLimitsUSB_Return
    \/ SetSwitchUSB_Return
    \/ SetSwitchValueUSB_Return
    \/ GetSwitchUSB_Return
    \/ GetNameUSB_Return
    \/ GetLimitsUSB_Return
    \/ GetReverseUSB_Return

Spec == Init /\ [][Next]_vars

\* ------------------------------------------------------------------------
\* Reads on a line that delivers bytes before the frame
\* ------------------------------------------------------------------------

\* Bytes in front of a frame that hold neither '#' nor ';': a letter, two
\* letters, a zero byte.
Junk == {<<"x">>, <<"x", "y">>, <<NUL>>}

\* The connected process of Init on a line that delivers junk before every
\* frame.
InitReceive ==
    /\ connectedstate = TRUE
    /\ numDC = Topology.numDC
    /\ numPWM = Topology.numPWM
    /\ numRelay = Topology.numRelay
    /\ numOn = Topology.numOn
    /\ numUSB = Topology.numUSB
    /\ state \in InitialStates
    /\ name_switch = [i \in 0..(ARRAY_SIZE - 1) |->
                        IF i < Topology.numDC + Topology.numPWM THEN <<"o", "u", "t">> ELSE <<>>]
    /\ Reverse = [i \in 0..(REVERSE_SIZE - 1) |-> FALSE]
    /\ Limit = [i \in 0..(LIMIT_SIZE - 1) |-> 500]
    /\ Alldc = TRUE
    /\ Allpwm = TRUE
    /\ terminated = FALSE
    /\ pc = "idle"
    /\ cur = NoOp
    /\ pre = Cache
    /\ tx = <<>>
    /\ rx = <<>>
    /\ matched = FALSE
    /\ logged = "none"
    /\ ret = "none"
    /\ confirmed = state
    /\ nops = 0
    /\ task = NoTask
    /\ timer = 1
    /\ sent = <<>>
    /\ inflight = 0
    /\ first = NoFirst
    /\ initialized = TRUE
    /\ created = 1
    /\ IP = <<>>
    /\ SSID = <<>>
    /\ PowerSensorsNP = NotPublished
    /\ TotalConsumptionNP = NotPublished
    /\ noise \in Junk
    /\ pending = <<>>

NextReceive ==
    \/ \E port \in 0..(numDC - 1), enabled \in BOOLEAN : SetPowerPort(port, enabled)
    \/ \E k \in 0..(numSwitch - 1) : GetSwitchUSB_Call(k)
    \/ \E i \in 0..(numDC + numPWM - 1) : GetNameUSB_Call(i)
    \/ \E i \in 0..(REVERSE_SIZE - 1) : GetReverseUSB_Call(i)
    \/ \E i \in 0..(numDC + numPWM - 1), name \in Labels : ISNewText_Labels(i, name)
    \/ SetSwitchUSB_Return
    \/ GetSwitchUSB_Return
    \/ GetNameUSB_Return
    \/ GetReverseUSB_Return
    \/ SetNameUSB_Return

SpecReceive == InitReceive /\ [][NextReceive]_vars

\* ------------------------------------------------------------------------
\* Input left over from a command that reads no response
\* ------------------------------------------------------------------------

\* What the device may send after the reboot command, which nobody reads:
\* nothing, the state of a switch, an error frame.
BootOutput ==
    {<<>>, Frame("G", 0, <<"1">>), <<"#", "E", "0", ":", "b", "a", "d", ";">>}

\* ISNewSwitch, lines 188-191, and reboot, lines 1473-1477: Transmit('p', 0)
\* discards the input and writes; no response is read.
reboot ==
    /\ Dispatchable
    /\ connectedstate
    /\ cur.caller # "reboot"
    /\ \E written \in BOOLEAN :
          /\ tx' = IF written THEN Transmit("p", 0) ELSE <<>>
          /\ \E out \in BootOutput : pending' = IF written THEN out ELSE <<>>
    /\ cur' = [NoOp EXCEPT !.cmd = "p", !.caller = "reboot"]
    /\ pre' = Cache
    /\ rx' = <<>>
    /\ matched' = FALSE
    /\ logged' = "none"
    /\ ret' = "IPS_OK"
    /\ sent' = <<<<"p", 0>>>>
    /\ UNCHANGED <<connectedstate, numDC, numPWM, numRelay, numOn, numUSB, state,
                   name_switch, Reverse, Limit, Alldc, Allpwm, terminated, pc,
                   confirmed, nops, task, timer, inflight, first,
                   initialized, created, IP, SSID, PowerSensorsNP, TotalConsumptionNP, noise>>

NextPending ==
    \/ reboot
    \/ \E port \in 0..(numDC - 1), enabled \in BOOLEAN : SetPowerPort(port, enabled)
    \/ \E k \in 0..(numSwitch - 1) : GetSwitchUSB_Call(k)
    \/ \E c \in 0..(REVERSE_SIZE - 1), enabled \in BOOLEAN : ISNewSwitch_Reverse(c, enabled)
    \/ SetSwitchUSB_Return
    \/ GetSwitchUSB_Return
    \/ SetReverseUSB_Return

SpecPending == Init /\ [][NextPending]_vars

\* ------------------------------------------------------------------------
\* The master switches
\* ------------------------------------------------------------------------

\* ISNewSwitch, lines 196-200 and 212-216: the message of a master switch
\* sets the flag; OFF starts the loop over the outputs of the class, ON
\* goes straight to the return.
MasterToggle(name, enabled) ==
    /\ Dispatchable
    /\ connectedstate
    /\ ~Blocked
    /\ task' = IF enabled THEN NoTask ELSE [name |-> name, k |-> 0]
    /\ sent' = <<>>
    /\ cur' = [NoOp EXCEPT !.caller = name]
    /\ pre' = Cache
    /\ rx' = <<>>
    /\ matched' = FALSE
    /\ logged' = "none"
    /\ ret' = IF enabled THEN "true" ELSE "none"
    /\ UNCHANGED <<connectedstate, numDC, numPWM, numRelay, numOn, numUSB, state,
                   name_switch, Reverse, Limit, terminated, pc, tx,
                   confirmed, nops, timer, inflight, first,
                   initialized, created, IP, SSID, PowerSensorsNP, TotalConsumptionNP, noise, pending>>

\* ISNewSwitch, lines 196-201: AllDCSP.
ISNewSwitch_AllDCSP(enabled) ==
    /\ MasterToggle("AllDCSP", enabled)
    /\ Alldc' = enabled
    /\ UNCHANGED Allpwm

\* ISNewSwitch, lines 212-217: AllPWMSP.
ISNewSwitch_AllPWMSP(enabled) ==
    /\ MasterToggle("AllPWMSP", enabled)
    /\ Allpwm' = enabled
    /\ UNCHANGED Alldc

\* ISNewSwitch, lines 203 and 219: (int)enabled and enabled ? 1.00 : 0.00
\* in the branch where enabled is false.
MasterValue == 0

\* ISNewSwitch, lines 202-203: for(i = 0; i < numDC; i++) SetSwitchUSB(i, 0),
\* up to the read of SetSwitchUSB.
AllDCSP_SetSwitchUSB ==
    /\ task.name = "AllDCSP"
    /\ task.k < numDC
    /\ Request("SetSwitchUSB", "S", "G", task.k, MasterValue, "AllDCSP",
               TransmitInt("S", task.k, MasterValue))
    /\ state' = [state EXCEPT ![task.k] = ToString(MasterValue)]
    /\ sent' = Append(sent, <<"S", task.k>>)
    /\ UNCHANGED <<connectedstate, nops, task>>

\* ISNewSwitch, lines 218-219: for(i = 0; i < numPWM; i++)
\* SetSwitchValueUSB(numDC + i, 0.00), up to the read of SetSwitchValueUSB.
AllPWMSP_SetSwitchValueUSB ==
    /\ task.name = "AllPWMSP"
    /\ task.k < numPWM
    /\ Request("SetSwitchValueUSB", "S", "G", numDC + task.k, MasterValue, "AllPWMSP",
               TransmitInt("S", numDC + task.k, MasterValue))
    /\ state' = [state EXCEPT ![numDC + task.k] = ToStringDouble(MasterValue)]
    /\ sent' = Append(sent, <<"S", numDC + task.k>>)
    /\ UNCHANGED <<connectedstate, nops, task>>

\* ISNewSwitch, lines 206-209 and 223-227: after the loop the properties are
\* applied and the callback returns true.
Master_End ==
    /\ \/ task.name = "AllDCSP" /\ task.k = numDC
       \/ task.name = "AllPWMSP" /\ task.k = numPWM
    /\ ~Blocked
    /\ ~terminated
    /\ task' = NoTask
    /\ ret' = "true"
    /\ UNCHANGED <<connectedstate, numDC, numPWM, numRelay, numOn, numUSB, state,
                   name_switch, Reverse, Limit, Alldc, Allpwm, terminated, pc, cur,
                   pre, tx, rx, matched, logged, confirmed, nops, timer, sent,
                   inflight, first, initialized, created, IP, SSID,
                   PowerSensorsNP, TotalConsumptionNP, noise, pending>>

\* The counts of the device whose master switches are operated: two DC
\* outputs and one dew heater.
MasterTopology == [numDC |-> 2, numPWM |-> 1, numRelay |-> 0, numOn |-> 0, numUSB |-> 0]

\* The value cache of that device before its first sweep and after one.
MasterStates ==
    {FreshState,
     [i \in 0..(ARRAY_SIZE - 1) |->
        IF i < MasterTopology.numDC THEN <<"1">>
        ELSE IF i < MasterTopology.numDC + MasterTopology.numPWM THEN <<"5", "0">>
        ELSE <<>>]}

\* A connected process with both master switches ON, as initProperties
\* (lines 122-123) leaves them.
InitMaster ==
    /\ connectedstate = TRUE
    /\ numDC = MasterTopology.numDC
    /\ numPWM = MasterTopology.numPWM
    /\ numRelay = MasterTopology.numRelay
    /\ numOn = MasterTopology.numOn
    /\ numUSB = MasterTopology.numUSB
    /\ state \in MasterStates
    /\ name_switch = [i \in 0..(ARRAY_SIZE - 1) |->
                        IF i < MasterTopology.numDC + MasterTopology.numPWM
                        THEN <<"o", "u", "t">> ELSE <<>>]
    /\ Reverse = [i \in 0..(REVERSE_SIZE - 1) |-> FALSE]
    /\ Limit = [i \in 0..(LIMIT_SIZE - 1) |-> 500]
    /\ Alldc = TRUE
    /\ Allpwm = TRUE
    /\ terminated = FALSE
    /\ pc = "idle"
    /\ cur = NoOp
    /\ pre = Cache
    /\ tx = <<>>
    /\ rx = <<>>
    /\ matched = FALSE
    /\ logged = "none"
    /\ ret = "none"
    /\ confirmed = state
    /\ nops = 0
    /\ task = NoTask
    /\ timer = 1
    /\ sent = <<>>
    /\ inflight = 0
    /\ first = NoFirst
    /\ initialized = TRUE
    /\ created = 1
    /\ IP = <<>>
    /\ SSID = <<>>
    /\ PowerSensorsNP = NotPublished
    /\ TotalConsumptionNP = NotPublished
    /\ noise = <<>>
    /\ pending = <<>>

NextMaster ==
    \/ \E enabled \in BOOLEAN : ISNewSwitch_AllDCSP(enabled)
    \/ \E enabled \in BOOLEAN : ISNewSwitch_AllPWMSP(enabled)
    \/ AllDCSP_SetSwitchUSB
    \/ AllPWMSP_SetSwitchValueUSB
    \/ Master_End
    \/ \E port \in 0..(numDC - 1), enabled \in BOOLEAN : SetPowerPort(port, enabled)
    \/ \E port \in 0..(numPWM - 1), enabled \in BOOLEAN, dutyCycle \in DutyCycles :
          SetDewPort(port, enabled, dutyCycle)
    \/ SetSwitchUSB_Return
    \/ SetSwitchValueUSB_Return

SpecMaster == InitMaster /\ [][NextMaster]_vars

\* ------------------------------------------------------------------------
\* The poll cycle
\* ------------------------------------------------------------------------

\* A TimerHit that returned without SetTimer while the device is not
\* connected, for comparison.
TimerHit_Begin_NotRearmed ==
    /\ Dispatchable
    /\ timer > 0
    /\ ~Blocked
    /\ sent' = <<>>
    /\ cur' = [NoOp EXCEPT !.caller = "TimerHit"]
    /\ pre' = Cache
    /\ rx' = <<>>
    /\ matched' = FALSE
    /\ logged' = "none"
    /\ ret' = "none"
    /\ timer' = timer - 1
    /\ task' = IF connectedstate THEN [name |-> "TimerHit", k |-> 0] ELSE NoTask
    /\ UNCHANGED <<connectedstate, numDC, numPWM, numRelay, numOn, numUSB, state,
                   name_switch, Reverse, Limit, Alldc, Allpwm, terminated, pc, tx,
                   confirmed, nops, inflight, first,
                   initialized, created, IP, SSID, PowerSensorsNP, TotalConsumptionNP, noise, pending>>

\* TimerHit, lines 1404-1408 and 1417: the callback of an armed timer, which
\* the firing consumes.  Not connected, it arms the timer again and returns;
\* connected, it starts the sweep at k = 0.
TimerHit_Begin ==
    /\ Dispatchable
    /\ timer > 0
    /\ ~Blocked
    /\ sent' = <<>>
    /\ cur' = [NoOp EXCEPT !.caller = "TimerHit"]
    /\ pre' = Cache
    /\ rx' = <<>>
    /\ matched' = FALSE
    /\ logged' = "none"
    /\ ret' = "none"
    /\ IF connectedstate
       THEN /\ timer' = timer - 1
            /\ task' = [name |-> "TimerHit", k |-> 0]
       ELSE /\ timer' = (timer - 1) + 1
            /\ task' = NoTask
    /\ UNCHANGED <<connectedstate, numDC, numPWM, numRelay, numOn, numUSB, state,
                   name_switch, Reverse, Limit, Alldc, Allpwm, terminated, pc, tx,
                   confirmed, nops, inflight, first,
                   initialized, created, IP, SSID, PowerSensorsNP, TotalConsumptionNP, noise, pending>>

\* TimerHit, lines 1404-1408, while the device is not connected: Disconnect
\* removes no timer, so the timer armed during a connection keeps firing.
TimerHit_NotConnected == ~connectedstate /\ TimerHit_Begin

NextConnect ==
    \/ \E opened \in BOOLEAN : Connect_Begin(opened)
    \/ GetNum_Return
    \/ Connect_GetNum
    \/ \E link \in ConnectLinks : Connect_Fetch(link)
    \/ Disconnect
    \/ TimerHit_NotConnected

SpecConnect == InitConnect /\ [][NextConnect]_vars

\* TimerHit, line 1417: for(k = 0; k < numSwitch; k++) GetSwitchUSB(k), up to
\* the read of GetSwitchUSB (line 973).
TimerHit_GetSwitchUSB ==
    /\ task.name = "TimerHit"
    /\ task.k < numSwitch
    /\ Request("GetSwitchUSB", "G", "G", task.k, 0, "TimerHit", Transmit("G", task.k))
    /\ sent' = Append(sent, <<"G", task.k>>)
    /\ UNCHANGED <<connectedstate, state, nops, task>>

\* The index used for the input voltage if it were the one of the total
\* current, for comparison.
numInputV_Shifted == total + 1

\* TimerHit, line 1414: the index of the input voltage in the value cache.
numInputV == total

\* TimerHit, line 1415: the index of the total current in the value cache.
numTotalA == numInputV + 1

\* TimerHit, lines 1419-1420: std::stof of the two cached texts throws
\* std::invalid_argument on a text that does not start with a number.
TimerHit_SensorThrows ==
    StofThrows(state[numInputV]) \/ StofThrows(state[numTotalA])

\* TimerHit, lines 1419-1425 and 1460-1462: v, a and v * a as they are set
\* in the properties; v and a in hundredths, the product in ten-thousandths.
TimerHit_Reading ==
    LET v == Stof(state[numInputV])
        a == Stof(state[numTotalA])
    IN  [voltage |-> v, current |-> a, power |-> v * a]

\* TimerHit, line 1417, with GetSwitchUSB, lines 988-990: the sweep writes
\* state[k] for every k < numSwitch.
TimerHit_IndicesSwept == 0..(numSwitch - 1)

\* Connect, line 489, with GetNameUSB, lines 1022-1024: name_switch[i] is
\* written for every i < numDC + numPWM.
Connect_NameIndices == 0..(numDC + numPWM - 1)

\* Connect, lines 541-551, and ISNewText, line 377: the loops over Limit[]
\* and Reverse[] run to the sizes of the arrays.
Connect_LimitIndices == 0..(LIMIT_SIZE - 1)
Connect_ReverseIndices == 0..(REVERSE_SIZE - 1)

\* TimerHit, lines 1419-1457: the indices of state[] that are read after the
\* sweep when no conversion throws.
TimerHit_IndicesRead ==
    LET sensorNum == total + 4
    IN  {numInputV, numTotalA}
        \cup {i : i \in 0..(numDC - 1)}
        \cup {numDC + j : j \in 0..(numPWM - 1)}
        \cup {sensorNum + 2 * i : i \in 0..(numDC - 1)}
        \cup {sensorNum + 2 * i + 1 : i \in 0..(numDC - 1)}
        \cup {sensorNum + 2 * numDC + 2 * i + 1 : i \in 0..(numPWM - 1)}
        \cup {sensorNum + 2 * numDC + 2 * numPWM, sensorNum + 2 * numDC + 2 * numPWM + 1}

\* TimerHit, lines 1419-1461: the conversions of the cached texts after the
\* sweep; std::stof and std::stoi throw std::invalid_argument on a text that
\* does not start with a number.
TimerHit_ConversionThrows ==
    LET sensorNum == total + 4
    IN  \/ TimerHit_SensorThrows
        \/ \E i \in 0..(numDC - 1) : StoiThrows(state[i])
        \/ \E j \in 0..(numPWM - 1) : StoiThrows(state[numDC + j])
        \/ \E i \in 0..(numDC - 1) :
              \/ StofThrows(state[sensorNum + 2 * i])
              \/ StofThrows(state[sensorNum + 2 * i + 1])
        \/ \E i \in 0..(numPWM - 1) :
              StofThrows(state[sensorNum + 2 * numDC + 2 * i + 1])
        \/ StofThrows(state[sensorNum + 2 * numDC + 2 * numPWM])
        \/ StofThrows(state[sensorNum + 2 * numDC + 2 * numPWM + 1])

\* TimerHit, lines 1419-1466: after the sweep the properties are set from
\* the cache and the timer is armed again.  PowerSensorsNP is set and applied
\* (lines 1423-1427) before the later conversions, TotalConsumptionNP (lines
\* 1460-1464) after them.
TimerHit_End ==
    /\ task.name = "TimerHit"
    /\ task.k = numSwitch
    /\ ~Blocked
    /\ ~terminated
    /\ terminated' = TimerHit_ConversionThrows
    /\ timer' = IF TimerHit_ConversionThrows THEN timer ELSE timer + 1
    /\ task' = IF TimerHit_ConversionThrows THEN task ELSE NoTask
    /\ PowerSensorsNP' = IF TimerHit_SensorThrows THEN PowerSensorsNP
                         ELSE TimerHit_Reading
    /\ TotalConsumptionNP' = IF TimerHit_ConversionThrows THEN TotalConsumptionNP
                             ELSE TimerHit_Reading
    /\ UNCHANGED <<connectedstate, numDC, numPWM, numRelay, numOn, numUSB, state,
                   name_switch, Reverse, Limit, Alldc, Allpwm, pc, cur, pre, tx, rx,
                   matched, logged, ret, confirmed, nops, sent, inflight, first,
                   initialized, created, IP, SSID, noise, pending>>

\* The counts of the devices polled: a box with one switchable bank, and a
\* box with one DC output and no bank.
PollTopologies ==
    {[numDC |-> 0, numPWM |-> 0, numRelay |-> 0, numOn |-> 1, numUSB |-> 0],
     [numDC |-> 1, numPWM |-> 0, numRelay |-> 0, numOn |-> 0, numUSB |-> 0]}

\* The value cache a completed sweep left for the counts c: the switch off,
\* the input at 12.00 V and 2.50 A, every other sensor at 12.50, the entries
\* behind the sweep never written.
SweptState(c) ==
    [i \in 0..(ARRAY_SIZE - 1) |->
        IF i < c.numDC + c.numPWM + c.numOn + c.numRelay + c.numUSB THEN <<"0">>
        ELSE IF i = c.numDC + c.numPWM + c.numOn + c.numRelay + c.numUSB
        THEN <<"1", "2", ".", "0", "0">>
        ELSE IF i = c.numDC + c.numPWM + c.numOn + c.numRelay + c.numUSB + 1
        THEN <<"2", ".", "5", "0">>
        ELSE IF i < (c.numDC + c.numPWM + c.numOn) * 2
                     + c.numDC + c.numPWM + c.numOn + c.numRelay + c.numUSB + 4
        THEN <<"1", "2", ".", "5", "0">>
        ELSE <<>>]

\* The process when Connect has returned and updateProperties has armed the
\* poll timer (line 152).
InitPoll ==
    /\ connectedstate = TRUE
    /\ \E c \in PollTopologies :
          /\ numDC = c.numDC
          /\ numPWM = c.numPWM
          /\ numRelay = c.numRelay
          /\ numOn = c.numOn
          /\ numUSB = c.numUSB
          /\ state = SweptState(c)
          /\ name_switch = [i \in 0..(ARRAY_SIZE - 1) |->
                              IF i < c.numDC + c.numPWM THEN <<"o", "u", "t">> ELSE <<>>]
          /\ first = [rx |-> ZFrame(<<c.numDC, c.numPWM, c.numRelay, c.numOn, c.numUSB>>),
                      topology |-> c]
    /\ Reverse = [i \in 0..(REVERSE_SIZE - 1) |-> FALSE]
    /\ Limit = [i \in 0..(LIMIT_SIZE - 1) |-> 500]
    /\ Alldc = TRUE
    /\ Allpwm = TRUE
    /\ terminated = FALSE
    /\ pc = "idle"
    /\ cur = NoOp
    /\ pre = Cache
    /\ tx = <<>>
    /\ rx = <<>>
    /\ matched = FALSE
    /\ logged = "none"
    /\ ret = "none"
    /\ confirmed = state
    /\ nops = 0
    /\ task = NoTask
    /\ timer = 1
    /\ sent = <<>>
    /\ inflight = 0
    /\ initialized = TRUE
    /\ created = 1
    /\ IP = <<>>
    /\ SSID = <<>>
    /\ PowerSensorsNP = NotPublished
    /\ TotalConsumptionNP = NotPublished
    /\ noise = <<>>
    /\ pending = <<>>

NextPoll ==
    \/ TimerHit_Begin
    \/ TimerHit_GetSwitchUSB
    \/ GetSwitchUSB_Return
    \/ TimerHit_End
    \/ \E port \in 0..(numDC - 1), enabled \in BOOLEAN : SetPowerPort(port, enabled)
    \/ \E enabled \in BOOLEAN : ISNewSwitch_OnSP(enabled)
    \/ SetSwitchUSB_Return
    \/ Disconnect

SpecPoll == InitPoll /\ [][NextPoll]_vars

\* ------------------------------------------------------------------------
\* Properties
\* ------------------------------------------------------------------------

\* An operation has been called and its handler has ended.
Ended == pc = "idle" /\ cur.fn # "none"

SetFns == {"SetSwitchUSB", "SetSwitchValueUSB"}
GetFns == {"GetSwitchUSB", "GetNameUSB", "GetLimitsUSB", "GetReverseUSB"}

\* The bytes start with '#', the tag and the decimal index, and the index
\* ends there.
HasTagAndIndex(bytes, tag, id) ==
    LET head == <<"#", tag>> \o ToString(id)
    IN  /\ bytes # TIMEOUT
        /\ Len(bytes) > Len(head)
        /\ SubSeq(bytes, 1, Len(head)) = head
        /\ ~IsDigit(bytes[Len(head) + 1])

\* A well-formed frame "#<tag><index>:<payload>;" whose tag is not E and
\* whose tag or index is not the one of the request of cur.
MismatchedFrame(bytes) ==
    \E p \in SwitchAckPayloads \cup DutyAckPayloads \cup SensorPayloads \cup VoltagePayloads
             \cup CurrentPayloads \cup NamePayloads
             \cup LimitPayloads \cup ReversePayloads :
        \/ bytes = Frame(cur.tag, cur.id + 4, p)
        \/ bytes = Frame(OtherTag(cur.tag), cur.id, p)
        \/ cur.cmd # cur.tag /\ bytes = Frame(cur.cmd, cur.id, p)

\* A frame with the error tag E, without and with an index.
ErrorFrame(bytes) ==
    \/ bytes = <<"#", "E", " ", "b", "a", "d", " ", "r", "e", "q", "u", "e", "s", "t", ";">>
    \/ bytes = <<"#", "E">> \o ToString(cur.id) \o <<":", "b", "a", "d", ";">>

\* A frame the grammar does not allow: no ':', a non-numeric index, no
\* leading '#', nothing between '#' and ';'.
MalformedFrame(bytes) ==
    \/ bytes = <<"#", cur.tag>> \o ToString(cur.id) \o <<";">>
    \/ bytes = <<"#", cur.tag, "x", ":", "1", ";">>
    \/ bytes = <<cur.tag>> \o ToString(cur.id) \o <<":", "1", ";">>
    \/ bytes = <<"#", ";">>

\* C1: a set-switch command (SetSwitchUSB for 0/1, SetSwitchValueUSB for a
\* duty cycle) answered with "#G{i}:{v};" returns with the cached value of
\* index i equal to v: the text of v for SetSwitchUSB, the text of the
\* double v (which std::stoi reads back as v) for SetSwitchValueUSB.
C1_AcknowledgedSetIsCached ==
    (Ended /\ cur.fn \in SetFns /\ rx = Frame("G", cur.id, ToString(cur.value)))
    => /\ ~terminated
       /\ cur.fn = "SetSwitchUSB" => state[cur.id] = ToString(cur.value)
       /\ cur.fn = "SetSwitchValueUSB" =>
             /\ state[cur.id] = ToStringDouble(cur.value)
             /\ Stoi(state[cur.id]) = cur.value

\* C1 witness: SetSwitchUSB(i, 1) on a cached "0" was answered "#G{i}:1;".
C1_Witness ==
    /\ Ended
    /\ cur.fn = "SetSwitchUSB"
    /\ cur.prev = <<"0">>
    /\ cur.value = 1
    /\ rx = Frame("G", cur.id, <<"1">>)
    /\ state[cur.id] = <<"1">>

\* The case of C2: the cached value was v0, another value was requested and
\* the device answered "#G{i}:{v0};".
C2_Case ==
    /\ Ended
    /\ cur.fn \in SetFns
    /\ rx = Frame("G", cur.id, cur.prev)
    /\ cur.fn = "SetSwitchUSB" => ToString(cur.value) # cur.prev
    /\ cur.fn = "SetSwitchValueUSB" => Stoi(cur.prev) # cur.value

C3_MismatchedResponseDropped ==
    (Ended /\ MismatchedFrame(rx))
    => (Cache = pre /\ logged = "none" /\ ~terminated)

\* C4: a response with the error tag E makes the operation end with a
\* device-error outcome and leaves the cache entry of the addressed index
\* equal to its value before the command, for set commands too and for
\* error payloads without index and ':'.
C4_ErrorLeavesCacheEntry ==
    (Ended /\ ErrorFrame(rx))
    => (~terminated /\ logged = "device_error" /\ Cache = pre)

\* C5: when the read ends without a frame or the write of the request
\* fails, the cache is left as it was before the command, for set commands
\* as well as get commands.
C5_NoFrameLeavesCache ==
    (Ended /\ (rx = TIMEOUT \/ ~cur.txOk)) => Cache = pre

\* C6: a command whose read times out fails only that command: it returns
\* to its caller, the connection stays open and the driver is not
\* terminated, so later commands and poll ticks can still run.
C6_TimeoutFailsOnlyTheCommand ==
    (Ended /\ rx = TIMEOUT) => (~terminated /\ connectedstate)

\* C7: a frame the grammar cannot parse makes the operation end (with a
\* protocol-error outcome) and leaves the cache as it was before the command.
C7_MalformedLeavesCache ==
    (Ended /\ MalformedFrame(rx)) => (~terminated /\ Cache = pre)

\* C8: a get for index i answered with "#<tag>{i}:{p};" returns with the
\* cache entry of i equal to the payload p: the value cache for G, the name
\* cache for n, the limit cache (as a float) for l.
C8_GetCachesPayload ==
    (Ended /\ IsAck(rx, cur.tag, cur.id))
    => /\ cur.fn = "GetSwitchUSB" => state[cur.id] = PayloadOf(rx, cur.id)
       /\ cur.fn = "GetNameUSB" => name_switch[cur.id] = PayloadOf(rx, cur.id)
       /\ cur.fn = "GetLimitsUSB" => Limit[cur.id] = Stof(PayloadOf(rx, cur.id))

\* C9: between commands the cached value of every index is the value last
\* confirmed by a matching acknowledgment or last reported by a read,
\* whichever came later; a value that was only requested is not cached once
\* the command has finished.
C9_CacheIsLastConfirmed ==
    (pc = "idle" /\ ~terminated)
    => \A i \in 0..(ARRAY_SIZE - 1) : state[i] = confirmed[i]

\* C10: a read-only command (G, n, r, l) leaves every cache entry unchanged
\* from its transmission until a response with the expected tag and the
\* requested index is decoded, and then changes at most the entry of the
\* requested index.
C10_ReadOnlyCommitsOnValidated ==
    /\ (pc = "wait" /\ cur.fn \in GetFns) => Cache = pre
    /\ (Ended /\ cur.fn \in GetFns) =>
          /\ Cache # pre => HasTagAndIndex(rx, cur.tag, cur.id)
          /\ \A i \in 0..(ARRAY_SIZE - 1) :
                i # cur.id => (state[i] = pre.state[i] /\ name_switch[i] = pre.name_switch[i])
          /\ \A i \in 0..(LIMIT_SIZE - 1) : i # cur.id => Limit[i] = pre.Limit[i]
          /\ \A i \in 0..(REVERSE_SIZE - 1) : i # cur.id => Reverse[i] = pre.Reverse[i]
          /\ cur.fn # "GetSwitchUSB" => state = pre.state
          /\ cur.fn # "GetNameUSB" => name_switch = pre.name_switch
          /\ cur.fn # "GetLimitsUSB" => Limit = pre.Limit
          /\ cur.fn # "GetReverseUSB" => Reverse = pre.Reverse

\* C10 witness: GetSwitchUSB(i) changed the entry of i on a validated response.
C10_Witness ==
    /\ Ended
    /\ cur.fn = "GetSwitchUSB"
    /\ HasTagAndIndex(rx, "G", cur.id)
    /\ state[cur.id] # pre.state[cur.id]
    /\ state[cur.id] = PayloadOf(rx, cur.id)

\* The counts as the list of a Z frame: DC, PWM, relay, bank, USB.
CountsAre(t) ==
    /\ numDC = t[1]
    /\ numPWM = t[2]
    /\ numRelay = t[3]
    /\ numOn = t[4]
    /\ numUSB = t[5]

\* C11: GetNum on the response "#Z:a,b,c,d,e;" returns with numDC = a,
\* numPWM = b, numRelay = c, numOn (the bank count) = d and numUSB = e, and
\* "#Z:7,3,1,1,7;" gives 19 physical and 45 logical switches.
C11_TopologyParsed ==
    \A t \in DeviceTopologies :
        (cur.fn = "GetNum" /\ pc = "idle" /\ rx = ZFrame(t))
        => /\ ~terminated
           /\ CountsAre(t)
           /\ t = <<7, 3, 1, 1, 7>> => (total = 19 /\ numSwitch = 45)

\* C11 witness: GetNum read "#Z:7,3,1,1,7;" and left 7, 3, 1, 1, 7.
C11_Witness ==
    /\ cur.fn = "GetNum"
    /\ pc = "idle"
    /\ rx = ZFrame(<<7, 3, 1, 1, 7>>)
    /\ CountsAre(<<7, 3, 1, 1, 7>>)
    /\ numSwitch = 45

\* C12: the physical switches are indexed in the order DC, PWM, relay, bank,
\* USB: the relay toggle sends its command to index numDC+numPWM, the bank
\* toggle to numDC+numPWM+numRelay, and SetUSBPort(p) to
\* numDC+numPWM+numRelay+numOn+p.
C12_ClassOrderLayout ==
    /\ cur.caller = "RelaySP" => cur.id = numDC + numPWM
    /\ cur.caller = "OnSP" => cur.id = numDC + numPWM + numRelay
    /\ cur.caller = "SetUSBPort" =>
          cur.id - (numDC + numPWM + numRelay + numOn) \in 0..(numUSB - 1)

\* The requests of a complete sweep of n indices: G for 0, 1, ..., n-1.
GRequests(n) == [k \in 1..n |-> <<"G", k - 1>>]

\* A poll cycle of a connected device is over: TimerHit has returned, or an
\* exception has left it.
PollCycleOver ==
    /\ connectedstate
    /\ cur.caller = "TimerHit"
    /\ pc = "idle"
    /\ task.name # "TimerHit" \/ terminated

\* C13: while connected, a poll cycle transmits exactly one G request for
\* every index 0 .. N-1 in ascending order and no other request, where
\* N = (numDC+numPWM+numOn)*2 + (numDC+numPWM+numRelay+numOn+numUSB) + 4.
C13_SweepRequestsEveryIndex ==
    PollCycleOver =>
        sent = GRequests((numDC + numPWM + numOn) * 2
                         + (numDC + numPWM + numRelay + numOn + numUSB) + 4)

\* The read of GetSwitchUSB(k) in a sweep has failed: nothing was read, or an
\* error frame, a malformed frame or a frame of another tag or index.
SweepReadFailed ==
    /\ cur.caller = "TimerHit"
    /\ cur.fn = "GetSwitchUSB"
    /\ pc = "idle"
    /\ rx = TIMEOUT \/ ErrorFrame(rx) \/ MalformedFrame(rx) \/ MismatchedFrame(rx)

\* C14: a failed read at index k of a sweep does not abort the sweep: the
\* cached value of k is what it was and the sweep goes on to index k+1.
C14_FailedReadKeepsSweeping ==
    SweepReadFailed =>
        /\ state[cur.id] = cur.prev
        /\ task.name = "TimerHit" => task.k = cur.id + 1

\* C15: a timer tick that is over (the sweep completed, a read in it failed,
\* or the device was not connected) has left the poll timer armed.
C15_TickRearmsTimer ==
    (cur.caller = "TimerHit" /\ pc = "idle" /\ (task.name # "TimerHit" \/ terminated))
        => timer > 0

C17_CountsFixedWhileConnected ==
    connectedstate => Counts = first.topology

\* C17 witness: a user toggle and then a complete sweep have run on the
\* connection, and the counts are the ones Connect left.
C17_Witness ==
    /\ connectedstate
    /\ nops = 1
    /\ task = NoTask
    /\ cur.caller = "TimerHit"
    /\ Len(sent) = numSwitch
    /\ rx = Frame("G", numSwitch - 1, <<"1", "2", ".", "5", "0">>)
    /\ Counts = first.topology

\* C18: when the second GetNum of a Connect reads the same bytes as the
\* first, it returns with the five counts as the first left them.
C18_DiscoveryIdempotent ==
    (cur.fn = "GetNum" /\ cur.caller = "Connect" /\ pc = "idle" /\ rx = first.rx)
    => (~terminated /\ Counts = first.topology)

\* C18 witness: both GetNum calls of a Connect read "#Z:1,1,0,1,1;".
C18_Witness ==
    /\ cur.fn = "GetNum"
    /\ cur.caller = "Connect"
    /\ pc = "idle"
    /\ rx = ZFrame(<<1, 1, 0, 1, 1>>)
    /\ first.rx = rx
    /\ CountsAre(<<1, 1, 0, 1, 1>>)

\* C19: no operation retries: whatever its handler read (an acknowledgment,
\* a mismatch, an error frame, a frame it dropped, nothing), the operation
\* handed its request to Transmit exactly once.
C19_RequestSentOnce ==
    cur.fn # "none" => sent = <<<<cur.cmd, cur.id>>>>

\* C19 witness: a set whose read timed out has ended with one request sent.
C19_Witness ==
    /\ Ended
    /\ cur.fn = "SetSwitchUSB"
    /\ cur.txOk
    /\ rx = TIMEOUT
    /\ Len(sent) = 1
    /\ tx = TransmitInt("S", cur.id, cur.value)

\* The handlers of the set commands S, N, R and L.
AllSetFns == SetFns \cup {"SetNameUSB", "SetReverseUSB", "SetLimitsUSB"}

\* The cache entry a set command of cur addresses holds the requested value.
HoldsRequested ==
    /\ cur.fn = "SetSwitchUSB" => state[cur.id] = ToString(cur.value)
    /\ cur.fn = "SetSwitchValueUSB" => state[cur.id] = ToStringDouble(cur.value)
    /\ cur.fn = "SetNameUSB" => name_switch[cur.id] = cur.value
    /\ cur.fn = "SetReverseUSB" => Reverse[cur.id] = (cur.value = 1)
    /\ cur.fn = "SetLimitsUSB" => Limit[cur.id] = cur.value

\* C20 as claimed: while a set command (S, N, R or L) waits for its
\* response, the cache entry it addresses already holds the requested value.
C20_EverySetWritesFirst ==
    (pc = "wait" /\ cur.fn \in AllSetFns) => HoldsRequested

\* C20 as amended: while a set-switch command (S) waits for its response the
\* value cache already holds the requested value; while a set-name,
\* set-polarity or set-limit command (N, R, L) waits, the caches are what
\* they were before the command.
C20_OnlySwitchSetsWriteFirst ==
    /\ (pc = "wait" /\ cur.fn \in SetFns) => HoldsRequested
    /\ (pc = "wait" /\ cur.fn \in AllSetFns \ SetFns) => Cache = pre

\* C20 witness: SetSwitchUSB(i, 1) on a cached "0" waits with "1" cached.
C20_Witness ==
    /\ pc = "wait"
    /\ cur.fn = "SetSwitchUSB"
    /\ cur.prev = <<"0">>
    /\ cur.value = 1
    /\ state[cur.id] = <<"1">>

\* C21: a set-name command for index i answered "#n{i}:{t};" ends with the
\* cached name of i equal to t, whether or not t is the requested text; a
\* set-polarity command for class c answered "#r{c}:{b};" ends with the
\* cached polarity of c equal to b.
C21_NameAndPolarityTrustDevice ==
    /\ (Ended /\ cur.fn = "SetNameUSB" /\ IsAck(rx, "n", cur.id))
          => (~terminated /\ name_switch[cur.id] = PayloadOf(rx, cur.id))
    /\ (Ended /\ cur.fn = "SetReverseUSB" /\ IsAck(rx, "r", cur.id))
          => (~terminated /\ Reverse[cur.id] = (PayloadOf(rx, cur.id) = <<"1">>))

\* C21 witness: the label "fan" was requested for an output named "out", the
\* device answered with "cam", and "cam" is cached.
C21_Witness ==
    /\ Ended
    /\ cur.fn = "SetNameUSB"
    /\ cur.value = <<"f", "a", "n">>
    /\ pre.name_switch[cur.id] = <<"o", "u", "t">>
    /\ rx = Frame("n", cur.id, <<"c", "a", "m">>)
    /\ name_switch[cur.id] = <<"c", "a", "m">>

\* C22: a set-limit command for slot k answered "#l{k}:{x};" ends with the
\* cached limit of k equal to x, whether or not x is the requested limit.
C22_LimitTrustsDevice ==
    (Ended /\ cur.fn = "SetLimitsUSB" /\ IsAck(rx, "l", cur.id))
        => (~terminated /\ Limit[cur.id] = Stof(PayloadOf(rx, cur.id)))

\* Connect has returned true.
ConnectSucceeded ==
    /\ cur.caller = "Connect"
    /\ ret = "true"
    /\ task = NoTask
    /\ connectedstate

\* The request cmd for index id was transmitted in the current callback.
Requested(cmd, id) == \E p \in 1..Len(sent) : sent[p] = <<cmd, id>>

\* C23: after every successful connect, the first and every reconnect, the
\* cached polarities and limits are values the device reported during that
\* connect: each of the five polarities and of the six limits was requested
\* in it, none is carried over from an earlier connection.
C23_SettingsFetchedEveryConnect ==
    ConnectSucceeded =>
        /\ \A c \in 0..(REVERSE_SIZE - 1) : Requested("r", c)
        /\ \A k \in 0..(LIMIT_SIZE - 1) : Requested("l", k)

\* C24: initialized is false at process start and true once a Connect has
\* run to its end, and stays true; the per-class properties are created in
\* at most one Connect of the process, every later Connect reusing them.
C24_InitializedOnce ==
    /\ nops = 0 => ~initialized
    /\ created <= 1
    /\ initialized => created = 1
    /\ (created = 1 /\ ~terminated) => initialized
    /\ ConnectSucceeded => initialized

\* C24 witness: a second Connect has returned true on the reuse path: it
\* fetched no limit and no polarity, and the properties were created once.
C24_Witness ==
    /\ ConnectSucceeded
    /\ nops = 2
    /\ initialized
    /\ created = 1
    /\ ~Requested("l", 0)
    /\ ~Requested("r", 0)

\* The bytes are the count list of a device.
IsZList(bytes) == \E t \in DeviceTopologies : bytes = ZFrame(t)

\* C25: initialized becomes true only in a Connect whose topology discovery
\* succeeded: not when both Z requests of the Connect got an error frame, a
\* frame of another tag or no response.
C25_FlagOnlyAfterDiscovery ==
    [][(~initialized /\ initialized') => (IsZList(rx) \/ IsZList(first.rx))]_vars

\* C26: an indexed command (G, S, n, N) is transmitted in a Connect only
\* when a topology discovery of that Connect succeeded: the name fetch never
\* runs with counts that no Z response of the connection has set.
C26_IndexedOnlyAfterDiscovery ==
    [][(task = [name |-> "Connect", k |-> 2]
        /\ \E p \in 1..Len(sent') : sent'[p][1] \in {"G", "S", "n", "N"})
       => (IsZList(rx) \/ IsZList(first.rx))]_vars

\* A matching response to the request of cur, built from its index and, for
\* a set command, from its value: "#<tag><index>:<value>;".
MatchingResponse ==
    /\ IsAck(rx, cur.tag, cur.id)
    /\ cur.fn \in {"SetSwitchUSB", "SetSwitchValueUSB", "SetReverseUSB"}
          => PayloadOf(rx, cur.id) = ToString(cur.value)
    /\ cur.fn = "SetNameUSB" => PayloadOf(rx, cur.id) = cur.value
    /\ cur.fn = "SetLimitsUSB" => Stof(PayloadOf(rx, cur.id)) = cur.value

\* C27: frame round trip: for every command, decoding a matching response
\* yields the index of the request (the response is accepted for it) and the
\* value of the response, which the handler leaves in its cache entry.
C27_FrameRoundTrip ==
    (Ended /\ MatchingResponse) =>
        /\ ~terminated
        /\ matched
        /\ cur.fn \in {"GetSwitchUSB", "SetSwitchUSB"} => state[cur.id] = PayloadOf(rx, cur.id)
        /\ cur.fn = "SetSwitchValueUSB" => Stoi(state[cur.id]) = Stoi(PayloadOf(rx, cur.id))
        /\ cur.fn \in {"GetNameUSB", "SetNameUSB"} => name_switch[cur.id] = PayloadOf(rx, cur.id)
        /\ cur.fn \in {"GetLimitsUSB", "SetLimitsUSB"} => Limit[cur.id] = Stof(PayloadOf(rx, cur.id))
        /\ cur.fn \in {"GetReverseUSB", "SetReverseUSB"}
              => Reverse[cur.id] = (Stoi(PayloadOf(rx, cur.id)) # 0)

\* The sweep of a poll cycle has requested every index and TimerHit has gone
\* on to set the properties.
SweepCompleted ==
    /\ connectedstate
    /\ cur.caller = "TimerHit"
    /\ pc = "idle"
    /\ \/ task = NoTask
       \/ terminated /\ task.name = "TimerHit" /\ task.k = numSwitch

\* C28: after a completed poll sweep the published input voltage is the
\* cached value at index total, the published total current the cached value
\* at index total + 1, and the published power their product; 12.00 V and
\* 2.50 A give 30.00 W.  TotalConsumptionNP holds the same values when the
\* callback has returned.
C28_SensorsFromCache ==
    LET total_ == numDC + numPWM + numOn + numRelay + numUSB
        v == Stof(state[total_])
        a == Stof(state[total_ + 1])
    IN  SweepCompleted =>
            /\ (~StofThrows(state[total_]) /\ ~StofThrows(state[total_ + 1])) =>
                  /\ PowerSensorsNP.voltage = v
                  /\ PowerSensorsNP.current = a
                  /\ PowerSensorsNP.power = v * a
                  /\ (v = 1200 /\ a = 250) => PowerSensorsNP.power = 300000
            /\ ~terminated => TotalConsumptionNP = PowerSensorsNP

\* A sweep has been completed and 12.00 V, 2.50 A and 30.00 W are published.
C28_Witness ==
    /\ SweepCompleted
    /\ ~terminated
    /\ state[numDC + numPWM + numOn + numRelay + numUSB] = <<"1", "2", ".", "0", "0">>
    /\ PowerSensorsNP = [voltage |-> 1200, current |-> 250, power |-> 300000]
    /\ TotalConsumptionNP = PowerSensorsNP

\* The tag the protocol table gives the response of a command.
TableTag(cmd) ==
    CASE cmd \in {"S", "G"} -> "G"
      [] cmd \in {"N", "n"} -> "n"
      [] cmd \in {"R", "r"} -> "r"
      [] cmd \in {"L", "l"} -> "l"
      [] cmd = "Z" -> "Z"
      [] cmd = "I" -> "i"
      [] cmd \in {"F", "f"} -> "f"

\* The responses "#<t>:<text>;" to a command without index, for every tag t
\* of the table and every set letter.
UnindexedFrames(text) ==
    {<<"#", t, ":">> \o text \o <<";">> :
        t \in {"G", "n", "r", "l", "Z", "i", "f", "S", "N", "R", "L", "I", "F"}}

\* C29: a response passes the acceptance test of a handler only if its tag is
\* the one of the protocol table for the command sent (G for S and G, n for N
\* and n, r for R and r, l for L and l, Z for Z, i for I, f for F and f); a
\* response with the letter of the set command itself is not accepted.
C29_AcceptedTagIsTableTag ==
    /\ (Ended /\ matched) =>
          /\ Len(rx) >= 2
          /\ rx[1] = "#"
          /\ rx[2] = TableTag(cur.cmd)
          /\ cur.cmd \in {"S", "N", "R", "L"} => rx[2] # cur.cmd
    /\ \A bytes \in UnindexedFrames(<<"1", ",", "1", ",", "0", ",", "1", ",", "1">>) :
          LET o == GetNum_Process(Counts, ReceiveTerminated(bytes, <<>>))
          IN  bytes[2] # TableTag("Z") => (~o.thrown /\ o.counts = Counts)
    /\ \A bytes \in UnindexedFrames(<<"o", "b", "s">>) :
          /\ GetIP_Process(IP, ReceiveTerminated(bytes, <<>>)).matched
                => bytes[2] = TableTag("I")
          /\ GetSSID_Process(SSID, ReceiveTerminated(bytes, <<>>)).matched
                => bytes[2] = TableTag("f")
          /\ SetSSID_Process(SSID, ReceiveTerminated(bytes, <<>>)).matched
                => bytes[2] = TableTag("F")

\* A set command was answered with a frame of its own letter and of its
\* index, and the frame was not accepted.
C29_Witness ==
    /\ Ended
    /\ cur.cmd \in {"S", "N", "R", "L"}
    /\ \E p \in SwitchPayloads \cup NamePayloads \cup ReversePayloads \cup LimitPayloads :
          rx = Frame(cur.cmd, cur.id, p)
    /\ ~matched
    /\ ~terminated

\* A set-switch handler has ended on a response "#G<index>:<payload>;" for
\* the index of its request.
SetAnswered == Ended /\ cur.fn \in SetFns /\ IsAck(rx, "G", cur.id)

\* The test of the claim of C30: a boolean set compares the first characters
\* of the payload and of the decimal text of the request, a duty-cycle set
\* the integer read from the payload with the duty requested.
ConfirmedByPayload ==
    LET payload == PayloadOf(rx, cur.id)
    IN  IF cur.fn = "SetSwitchUSB"
        THEN CharAt(payload, 0) = CharAt(ToString(cur.value), 0)
        ELSE ~StoiThrows(payload) /\ Stoi(payload) = cur.value

\* C30 for the boolean set alone: confirmed exactly when the first characters
\* agree, so that the request 1 answered with the payload "10" is confirmed;
\* rolled back otherwise.
SetSwitchConfirmedByFirstCharacter ==
    (SetAnswered /\ cur.fn = "SetSwitchUSB") =>
        state[cur.id] = IF ConfirmedByPayload THEN ToString(cur.value) ELSE cur.prev

\* The request 1 answered with the payload "10" was confirmed.
SetSwitchConfirmedByTen ==
    /\ SetAnswered
    /\ cur.fn = "SetSwitchUSB"
    /\ cur.value = 1
    /\ cur.prev = <<"0">>
    /\ PayloadOf(rx, cur.id) = <<"1", "0">>
    /\ state[cur.id] = <<"1">>

\* C30: a boolean set-switch is confirmed exactly when the first character of
\* the payload equals the first character of the decimal text of the value
\* requested, a duty-cycle set exactly when the integer parsed from the
\* payload equals the duty requested; in every other correctly tagged and
\* indexed case the cache is rolled back.
C30_ConfirmedOrRolledBack ==
    SetAnswered =>
        /\ ConfirmedByPayload => HoldsRequested
        /\ ~ConfirmedByPayload => state[cur.id] = cur.prev

\* What was read behind the junk the line delivered first.
FrameRead == SubSeq(rx, Len(noise) + 1, Len(rx))

\* A handler has ended on junk followed by a frame "#<tag><index>:<payload>;".
JunkThenFrame ==
    /\ Ended
    /\ noise # <<>>
    /\ rx # TIMEOUT
    /\ \E t \in {cur.tag, OtherTag(cur.tag), cur.cmd}, i \in {cur.id, cur.id + 4},
          p \in SwitchAckPayloads \cup SensorPayloads \cup VoltagePayloads
                \cup CurrentPayloads \cup NamePayloads \cup ReversePayloads \cup DutyPayloads :
          rx = noise \o Frame(t, i, p)

\* What the handler of cur leaves when it reads the frame alone, with the
\* bytes g behind the copied array.
HandlerAlone(frame, g) ==
    LET r == ReceiveTerminated(frame, g)
    IN  CASE cur.fn = "SetSwitchUSB" ->
                AfterToggle(cur.caller,
                            SetSwitchUSB_Process(cur.id, ToString(cur.value), cur.prev, r))
          [] cur.fn = "GetSwitchUSB" -> GetSwitchUSB_Process(cur.id, pre.state[cur.id], r)
          [] cur.fn = "GetNameUSB" -> GetNameUSB_Process(cur.id, pre.name_switch[cur.id], r)
          [] cur.fn = "SetNameUSB" -> SetNameUSB_Process(cur.id, pre.name_switch[cur.id], r)
          [] cur.fn = "GetReverseUSB" -> GetReverseUSB_Process(cur.id, pre.Reverse[cur.id], r)

\* The cache entry the handler of cur writes.
EntryOfCur ==
    CASE cur.fn \in {"SetSwitchUSB", "GetSwitchUSB"} -> state[cur.id]
      [] cur.fn \in {"GetNameUSB", "SetNameUSB"} -> name_switch[cur.id]
      [] cur.fn = "GetReverseUSB" -> Reverse[cur.id]

\* The handler ended as it can end on the frame alone: same acceptance (tag
\* and index), same cache entry (payload), same log, and no exception
\* unless the frame alone raises one.
SameAsFrameAlone ==
    \E g \in Garbage :
        LET o == HandlerAlone(FrameRead, g)
        IN  /\ terminated = o.thrown
            /\ matched = o.matched
            /\ logged = o.log
            /\ EntryOfCur = o.text

\* C31 for junk without a zero byte: the handler ends as on the frame alone.
PrintableJunkDiscarded ==
    (JunkThenFrame /\ \A k \in 1..Len(noise) : noise[k] # NUL) => SameAsFrameAlone

\* C31: bytes received before the leading '#' are discarded: for every junk
\* prefix that holds neither '#' nor ';', junk followed by
\* "#<tag><index>:<payload>;" gives the same decoded tag, index and payload
\* and the same cache effect as the frame alone.
C31_JunkBeforeFrameDiscarded ==
    JunkThenFrame => SameAsFrameAlone

C33_InputDiscardedBeforeRequest ==
    [][(pc = "idle" /\ pc' = "wait") => pending' = <<>>]_vars

\* C33 for the commands that go through the other Transmit variants.
FlushingVariantsDiscardInput ==
    [][(pc = "idle" /\ pc' = "wait" /\ cur'.cmd \notin {"S", "R"}) => pending' = <<>>]_vars

\* C34: for every topology, every cache index the poll cycle reads after the
\* sweep (input voltage and current, the pair of each DC output, the current
\* of each PWM output, the pair of the bank) is smaller than the logical
\* switch count, so it was requested with G in that sweep.
C34_ReadsWithinSweep ==
    SweepCompleted =>
        \A i \in TimerHit_IndicesRead :
            i < (numDC + numPWM + numOn) * 2 + (numDC + numPWM + numOn + numRelay + numUSB) + 4

\* C34 for a device with a bank.
ReadsWithinSweepWithBank ==
    (SweepCompleted /\ numOn > 0) =>
        \A i \in TimerHit_IndicesRead : <<"G", i>> \in {sent[k] : k \in 1..Len(sent)}

\* C35: every index used to access the value cache or the name cache is
\* within their capacity of 100 entries, and every class and limit index
\* within the 5 polarity flags and the 6 limits, for every topology the
\* device can report.
C35_IndicesWithinCapacity ==
    ConnectSucceeded =>
        /\ \A i \in TimerHit_IndicesSwept \cup TimerHit_IndicesRead : i >= 0 /\ i < 100
        /\ \A i \in Connect_NameIndices : i >= 0 /\ i < 100
        /\ \A i \in Connect_ReverseIndices : i >= 0 /\ i < 5
        /\ \A i \in Connect_LimitIndices : i >= 0 /\ i < 6

\* C35 for the devices whose logical switch count and the two entries
\* behind it fit the arrays.
IndicesWithinCapacityOfSmallDevice ==
    (ConnectSucceeded /\ numSwitch + 2 <= ARRAY_SIZE) =>
        /\ \A i \in TimerHit_IndicesSwept \cup TimerHit_IndicesRead : i >= 0 /\ i < 100
        /\ \A i \in Connect_NameIndices : i >= 0 /\ i < 100

\* C36: discovery updates the five counts all or nothing: after GetNum either
\* all of them come from the same Z response or all five are unchanged; a
\* response with fewer than five fields, an error tag, a wrong tag or no
\* response never leaves some counts updated and others not.
C36_CountsAllOrNothing ==
    [][(pc = "wait" /\ cur.fn = "GetNum" /\ pc' = "idle") =>
          \/ topology' = topology
          \/ \E t \in DeviceTopologies : rx' = ZFrame(t) /\ topology' = t]_vars

\* C36 for the calls of GetNum that return.
CountsAllOrNothingOnReturn ==
    [][(pc = "wait" /\ cur.fn = "GetNum" /\ pc' = "idle" /\ ~terminated') =>
          \/ topology' = topology
          \/ \E t \in DeviceTopologies : rx' = ZFrame(t) /\ topology' = t]_vars

\* The requests S lo .. S lo+n-1 in ascending order.
SRequests(lo, n) == [k \in 1..n |-> <<"S", lo + k - 1>>]

\* The callback of a master switch is over: it has returned, or an exception
\* has left it.
MasterOver(name) ==
    /\ cur.caller = name
    /\ pc = "idle"
    /\ task.name # name \/ terminated

\* A port operation was called while its master switch was OFF and is over.
PortCalledWhileOff ==
    \/ cur.caller = "SetPowerPort" /\ ~Alldc
    \/ cur.caller = "SetDewPort" /\ ~Allpwm

\* What the master loops have sent so far is S with value 0 for the first
\* indices of the class, in ascending order.
MasterFramesInOrder ==
    /\ cur.caller = "AllDCSP" =>
          /\ \E n \in 0..numDC : sent = SRequests(0, n)
          /\ cur.fn = "SetSwitchUSB" => cur.value = 0 /\ tx \in {<<>>, TransmitInt("S", cur.id, 0)}
    /\ cur.caller = "AllPWMSP" =>
          /\ \E n \in 0..numPWM : sent = SRequests(numDC, n)
          /\ cur.fn = "SetSwitchValueUSB" =>
                cur.value = 0 /\ tx \in {<<>>, TransmitInt("S", cur.id, 0)}

\* C37: while a master switch is OFF the port operation of its class
\* transmits nothing, leaves the cache unchanged and reports success;
\* turning the all-DC master OFF sends S with value 0 to each index
\* 0 .. numDC-1 in ascending order and to no other (the all-PWM master to
\* numDC .. numDC+numPWM-1), and turning a master ON sends no frame.
C37_MasterSwitches ==
    /\ PortCalledWhileOff => sent = <<>> /\ Cache = pre /\ ret = "true" /\ pc = "idle"
    /\ MasterFramesInOrder
    /\ MasterOver("AllDCSP") => sent = IF Alldc THEN <<>> ELSE SRequests(0, numDC)
    /\ MasterOver("AllPWMSP") => sent = IF Allpwm THEN <<>> ELSE SRequests(numDC, numPWM)

\* C37 for the callbacks that return.
MasterSwitchesOnReturn ==
    /\ PortCalledWhileOff => sent = <<>> /\ Cache = pre /\ ret = "true" /\ pc = "idle"
    /\ MasterFramesInOrder
    /\ (MasterOver("AllDCSP") /\ ~terminated) =>
          sent = IF Alldc THEN <<>> ELSE SRequests(0, numDC)
    /\ (MasterOver("AllPWMSP") /\ ~terminated) =>
          sent = IF Allpwm THEN <<>> ELSE SRequests(numDC, numPWM)

\* A toggle of the bank, of the relay or of a class polarity is over.
ToggleOver == Ended /\ cur.caller \in {"OnSP", "RelaySP", "ReverseSP"}

\* The response read is the acknowledgment of the requested value, with the
\* tag and the index of the request.
ToggleAcknowledged ==
    IsAck(rx, cur.tag, cur.id) /\ PayloadOf(rx, cur.id) = ToString(cur.value)

\* The response read is an error frame, a frame of another tag or index, or
\* an acknowledgment of another value.
ToggleRefused ==
    \/ ErrorFrame(rx)
    \/ MismatchedFrame(rx)
    \/ IsAck(rx, cur.tag, cur.id) /\ PayloadOf(rx, cur.id) # ToString(cur.value)

\* C38: a bank, relay or polarity toggle is reported as OK only if the
\* device acknowledged the requested value with a response of the right tag
\* and index; on an error response, a response dropped for its tag or
\* index, or one that disagrees with the request, it is reported as ALERT.
C38_ToggleReportsAcknowledgment ==
    ToggleOver =>
        /\ ret = "IPS_OK" => ToggleAcknowledged
        /\ ToggleRefused => ret = "IPS_ALERT"

\* What the toggles do report: OK when the cache holds the requested value
\* after the set, whatever was read.
ToggleReportsCache ==
    (ToggleOver /\ ~terminated) =>
        (ret = "IPS_OK") =
            IF cur.caller = "ReverseSP" THEN Reverse[cur.id] = (cur.value = 1)
            ELSE (Stoi(state[cur.id]) # 0) = (cur.value = 1)

\* C39: while the device is not connected a poll tick transmits no frame and
\* changes no cache entry, it only arms the timer again; a Connect whose
\* port cannot be opened transmits no frame, leaves the topology and the
\* cache unchanged and reports failure.
C39_NotConnectedIsQuiet ==
    [][/\ (~connectedstate /\ cur'.caller = "TimerHit") =>
             /\ sent' = <<>> /\ tx' = tx /\ inflight' = inflight /\ pc' = "idle"
             /\ Cache' = Cache
             /\ timer' = timer /\ task' = NoTask
       /\ (cur'.caller = "Connect" /\ ret' = "false") =>
             /\ sent' = <<>> /\ tx' = tx /\ inflight' = inflight /\ pc' = "idle"
             /\ Cache' = Cache /\ topology' = topology
             /\ ~connectedstate']_vars

\* A tick has run after a Disconnect, and the device is still not connected.
C39_Witness ==
    /\ ~connectedstate
    /\ cur.caller = "TimerHit"
    /\ initialized
    /\ timer >= 1
    /\ sent = <<>>

====
